---- MODULE Spec2Model ----
(***************************************************************************)
(* Data integration agent: schema snapshots, column-mapping inference,     *)
(* human approval, SQL synthesis and execution, over one session state.    *)
(* Confidences are kept in hundredths (0.95 is 95); texts are strings.     *)
(***************************************************************************)
EXTENDS Integers, Sequences, FiniteSets, TLC

(***************************************************************************)
(* Bounds of the explored runs.                                            *)
(***************************************************************************)
MaxAudit == 4        \* audited operations of a run with the whole environment
MaxRoundsAudit == 6  \* audited operations of a run on the one table pair
MaxPairsAudit == 3   \* audited operations of a run on the customer datasets
MaxRaceAudit == 4    \* audited operations of a run with overlapping calls
MaxWaiting == 2      \* approve_mappings calls waiting for the reviewer at once
MaxStaleAudit == 6   \* audited operations of a run that ends in an execution
MaxTokens == 2       \* tokens the web server issues in a run
MaxSourceCols == 3   \* columns of a drawn source table
MaxTargetCols == 3   \* columns of a drawn target table

(***************************************************************************)
(* Python values and string methods.                                       *)
(***************************************************************************)
None == "None"

EmptyDict == <<>>

(* Body at the value of v, with v evaluated once (a local variable) *)
With(v, Body(_)) == CHOOSE r \in { Body(w) : w \in {v} } : TRUE

Put(d, k, v) == [j \in DOMAIN d \cup {k} |-> IF j = k THEN v ELSE d[j]]

LowerChar(c) ==
    CASE c = "A" -> "a" [] c = "B" -> "b" [] c = "C" -> "c" [] c = "D" -> "d"
      [] c = "E" -> "e" [] c = "F" -> "f" [] c = "G" -> "g" [] c = "H" -> "h"
      [] c = "I" -> "i" [] c = "J" -> "j" [] c = "K" -> "k" [] c = "L" -> "l"
      [] c = "M" -> "m" [] c = "N" -> "n" [] c = "O" -> "o" [] c = "P" -> "p"
      [] c = "Q" -> "q" [] c = "R" -> "r" [] c = "S" -> "s" [] c = "T" -> "t"
      [] c = "U" -> "u" [] c = "V" -> "v" [] c = "W" -> "w" [] c = "X" -> "x"
      [] c = "Y" -> "y" [] c = "Z" -> "z" [] OTHER -> c

(* str.lower(), by halves to keep the evaluation shallow *)
RECURSIVE Lower(_)
Lower(s) ==
    IF Len(s) = 0 THEN ""
    ELSE IF Len(s) = 1 THEN LowerChar(s)
    ELSE Lower(SubSeq(s, 1, Len(s) \div 2)) \o Lower(SubSeq(s, Len(s) \div 2 + 1, Len(s)))

Contains(hay, needle) ==
    \/ Len(needle) = 0
    \/ \E i \in 1..(Len(hay) - Len(needle) + 1) :
          SubSeq(hay, i, i + Len(needle) - 1) = needle

StartsWith(s, prefix) ==
    /\ Len(prefix) <= Len(s)
    /\ SubSeq(s, 1, Len(prefix)) = prefix

EndsWith(s, suffix) ==
    /\ Len(suffix) <= Len(s)
    /\ SubSeq(s, Len(s) - Len(suffix) + 1, Len(s)) = suffix

(* str.replace(old, new): every occurrence, left to right, without overlap *)
RECURSIVE ReplaceAll(_, _, _)
ReplaceAll(s, old, new) ==
    With(s, LAMBDA text :
        With({ i \in 1..(Len(text) - Len(old) + 1) :
                   SubSeq(text, i, i + Len(old) - 1) = old },
             LAMBDA hits :
                IF hits = {} THEN text
                ELSE With(CHOOSE i \in hits : \A j \in hits : i <= j,
                          LAMBDA first :
                             SubSeq(text, 1, first - 1) \o new
                             \o ReplaceAll(SubSeq(text, first + Len(old), Len(text)),
                                           old, new))))

RECURSIVE SumSeq(_)
SumSeq(q) == IF Len(q) = 0 THEN 0 ELSE Head(q) + SumSeq(Tail(q))

Max(a, b) == IF a >= b THEN a ELSE b

(* An exact decimal half in round(x / n, 2) is decided on the binary        *)
(* doubles of the sum and the quotient. For two confidences the quotients   *)
(* 0.575, 0.625, 0.725 and 0.775 come out as 0.57, 0.62, 0.72 and 0.77, and *)
(* 0.675 as 0.68; three confidences give no exact half. With four or more   *)
(* the outcome depends on the operands; the lower neighbour stands for it.  *)
HalfGoesUp(x, n) == n = 2 /\ x = 135

(* round(x / n, 2) on hundredths: the nearest hundredth of a non-negative   *)
(* quotient                                                                 *)
RoundDiv(x, n) ==
    LET q == x \div n
        r == x % n
    IN  IF 2 * r < n THEN q
        ELSE IF 2 * r > n THEN q + 1
        ELSE IF HalfGoesUp(x, n) THEN q + 1 ELSE q

(***************************************************************************)
(* The warehouse catalog and the process environment.                      *)
(***************************************************************************)
ProjectId == "proj"
SourceDataset == "commercial_lending_source"
TargetDataset == "commercial_lending_target"

Col(n, t) == [name |-> n, type |-> t]

Catalog ==
    [lend_src  |-> << [table_name |-> "loan",
                       columns |-> << Col("loan_id", "INT64"),
                                      Col("amount", "FLOAT64") >>] >>,
     lend_tgt  |-> << [table_name |-> "loan",
                       columns |-> << Col("loan_id", "INT64"),
                                      Col("amount", "NUMERIC"),
                                      Col("status", "STRING") >>],
                      [table_name |-> "fee",
                       columns |-> << Col("fee_amt", "NUMERIC") >>] >>,
     lend_tgt2 |-> << [table_name |-> "loan",
                       columns |-> << Col("loan_id", "INT64"),
                                      Col("drop", "STRING") >>] >>,
     crm_src   |-> << [table_name |-> "cust_src",
                       columns |-> << Col("cust_id", "INT64"),
                                      Col("cust_name", "STRING") >>] >>,
     crm_tgt   |-> << [table_name |-> "customer",
                       columns |-> << Col("customer_id", "INT64"),
                                      Col("customer_name", "STRING"),
                                      Col("customer_status", "STRING") >>],
                      [table_name |-> "dim_to_customer",
                       columns |-> << Col("customer_id", "INT64") >>] >>]

SourceDatasetIds == {"lend_src"}
TargetDatasetIds == {"lend_tgt", "lend_tgt2"}
SourceTableArgs == {"loan"}
TargetTableArgs == {"loan", "fee"}

(* the customer datasets and the table names a caller passes for them *)
PairSourceArgs == {"cust_src", "cust_src_to_dim"}
PairTargetArgs == {"customer", "dim_to_customer", "account"}

(* tables drawn for mapping inference: every list of up to MaxSourceCols   *)
(* (MaxTargetCols) columns with pairwise different names                   *)
InferSourceNames == {"amount", "Amount", "cust_id"}
InferTargetNames == {"amount", "loan_amount", "customer_id"}
InferSourceTypes == {"FLOAT64", "NUMERIC"}
InferTargetTypes == {"NUMERIC"}
InferTable == "ledger"

ColumnLists(names, types, n) ==
    UNION { { q \in [1..k -> [name : names, type : types]] :
                \A i \in 1..k, j \in 1..k : i < j => q[i].name # q[j].name }
            : k \in 1..n }

(***************************************************************************)
(* Mapping inference.                                                      *)
(***************************************************************************)
prefixes == << "src_", "tgt_", "dim_", "fact_", "stg_" >>
(* variant: _name is a suffix the two names may share *)
suffixesWithName == << "_id", "_key", "_code", "_date", "_amt", "_amount", "_name" >>
suffixes == << "_id", "_key", "_code", "_date", "_amt", "_amount" >>

RECURSIVE StripPrefixes(_, _)
StripPrefixes(n, i) ==
    IF i > Len(prefixes) THEN n
    ELSE StripPrefixes(ReplaceAll(n, prefixes[i], ""), i + 1)

RECURSIVE StripSuffixes(_, _, _)
StripSuffixes(n1, n2, i) ==
    IF i > Len(suffixes) THEN << n1, n2 >>
    ELSE IF EndsWith(n1, suffixes[i]) /\ EndsWith(n2, suffixes[i])
         THEN StripSuffixes(SubSeq(n1, 1, Len(n1) - Len(suffixes[i])),
                            SubSeq(n2, 1, Len(n2) - Len(suffixes[i])), i + 1)
         ELSE StripSuffixes(n1, n2, i + 1)

_similar_names(name1, name2) ==
    \E p1 \in {StripPrefixes(Lower(name1), 1)}, p2 \in {StripPrefixes(Lower(name2), 1)} :
        \E st \in {StripSuffixes(p1, p2, 1)} :
            LET n1 == st[1]
                n2 == st[2]
            IN  n1 = n2 \/ Contains(n2, n1) \/ Contains(n1, n2)

(* variant: the confidences of all the rules that apply are added up *)
RuleConfidenceSummed(source_name, target_name) ==
    (IF Lower(source_name) = Lower(target_name) THEN 95 ELSE 0)
    + (IF \/ Contains(Lower(target_name), Lower(source_name))
          \/ Contains(Lower(source_name), Lower(target_name)) THEN 75 ELSE 0)
    + (IF _similar_names(source_name, target_name) THEN 60 ELSE 0)

(* name-rule confidence of one source column for one target column; 0 = skip *)
RuleConfidence(source_name, target_name) ==
    IF Lower(source_name) = Lower(target_name) THEN 95
    ELSE IF \/ Contains(Lower(target_name), Lower(source_name))
            \/ Contains(Lower(source_name), Lower(target_name)) THEN 75
    ELSE IF _similar_names(source_name, target_name) THEN 60
    ELSE 0

(* variant: the cast is written on the column itself *)
CastTransformOfType(target_type) == "CAST(" \o target_type \o ")"

CastTransform(target_type) == "CAST({source} AS " \o target_type \o ")"

(* variant: a later column with the same score replaces the earlier one *)
RECURSIVE BestMatchLastSeen(_, _, _, _)
BestMatchLastSeen(source_cols, target_col, i, best) ==
    IF i > Len(source_cols) THEN best
    ELSE With(RuleConfidence(source_cols[i].name, target_col.name), LAMBDA base :
            LET sc == source_cols[i]
                mismatch == sc.type # target_col.type
                confidence == IF mismatch THEN base - 10 ELSE base
                transform == IF mismatch THEN CastTransform(target_col.type) ELSE None
            IN  IF base = 0 THEN BestMatchLastSeen(source_cols, target_col, i + 1, best)
                ELSE IF confidence >= best.confidence
                     THEN With([match |-> sc.name, source_type |-> sc.type,
                                confidence |-> confidence,
                                transformation |-> transform],
                               LAMBDA better :
                                  BestMatchLastSeen(source_cols, target_col, i + 1, better))
                     ELSE BestMatchLastSeen(source_cols, target_col, i + 1, best))

(* the inner loop over the source columns, carrying the best match so far *)
RECURSIVE BestMatch(_, _, _, _)
BestMatch(source_cols, target_col, i, best) ==
    IF i > Len(source_cols) THEN best
    ELSE With(RuleConfidence(source_cols[i].name, target_col.name), LAMBDA base :
            LET sc == source_cols[i]
                mismatch == sc.type # target_col.type
                confidence == IF mismatch THEN base - 10 ELSE base
                transform == IF mismatch THEN CastTransform(target_col.type) ELSE None
            IN  IF base = 0 THEN BestMatch(source_cols, target_col, i + 1, best)
                ELSE IF confidence > best.confidence
                     THEN With([match |-> sc.name, source_type |-> sc.type,
                                confidence |-> confidence,
                                transformation |-> transform],
                               LAMBDA better :
                                  BestMatch(source_cols, target_col, i + 1, better))
                     ELSE BestMatch(source_cols, target_col, i + 1, best))

(* variant: a target column without a candidate keeps a small confidence *)
NoMatchLowScore == [match |-> None, source_type |-> None, confidence |-> 10,
                    transformation |-> None]

NoMatch == [match |-> None, source_type |-> None, confidence |-> 0,
            transformation |-> None]

(* variant: the source column is reported in lower case *)
MappingForLowered(source_cols, target_col) ==
    With(BestMatch(source_cols, target_col, 1, NoMatch), LAMBDA b :
        [target_column |-> target_col.name,
         target_type |-> target_col.type,
         source_column |-> IF b.match # None THEN Lower(b.match) ELSE None,
         source_type |-> b.source_type,
         confidence |-> b.confidence,
         transformation |-> b.transformation,
         status |-> IF b.match # None THEN "suggested" ELSE "unmapped"])

MappingFor(source_cols, target_col) ==
    With(BestMatch(source_cols, target_col, 1, NoMatch), LAMBDA b :
        [target_column |-> target_col.name,
         target_type |-> target_col.type,
         source_column |-> b.match,
         source_type |-> b.source_type,
         confidence |-> b.confidence,
         transformation |-> b.transformation,
         status |-> IF b.match # None THEN "suggested" ELSE "unmapped"])

Mappings(source_cols, target_cols) ==
    [i \in 1..Len(target_cols) |-> MappingFor(source_cols, target_cols[i])]

Mapped(mappings) == SelectSeq(mappings, LAMBDA m : m.source_column # None)

(* variant: the sum is divided by the number of all target columns *)
AverageConfidenceOfAll(mappings) ==
    RoundDiv(SumSeq([i \in 1..Len(Mapped(mappings)) |-> Mapped(mappings)[i].confidence]),
             Max(Len(mappings), 1))

AverageConfidence(mappings) ==
    RoundDiv(SumSeq([i \in 1..Len(Mapped(mappings)) |-> Mapped(mappings)[i].confidence]),
             Max(Len(Mapped(mappings)), 1))

(* the result dictionary built by suggest_column_mappings *)
MappingCount(mappings) == Len(Mapped(mappings))

UnmappedCount(mappings) ==
    Len(SelectSeq(mappings, LAMBDA m : m.source_column = None))

(***************************************************************************)
(* Guardrails: mapping validity, confidence analysis, risk assessment,     *)
(* SQL safety and the audit sink.                                          *)
(***************************************************************************)
ColumnNames(cols) == { cols[i].name : i \in 1..Len(cols) }

validate_mapping_output(mappings, source_col_names, target_col_names) ==
    LET bad_source == SelectSeq(mappings, LAMBDA m :
                          m.source_column # None /\ m.source_column \notin source_col_names)
        bad_target == SelectSeq(mappings, LAMBDA m :
                          m.target_column \notin target_col_names)
        hallucinated == [i \in 1..Len(bad_source) |-> bad_source[i].source_column]
                        \o [i \in 1..Len(bad_target) |-> bad_target[i].target_column]
    IN  [is_valid |-> Len(hallucinated) = 0,
         error |-> IF Len(hallucinated) = 0 THEN None ELSE "Hallucinated columns",
         hallucinated |-> hallucinated]

validate_confidence_threshold(mappings) ==
    LET mapped == Mapped(mappings)
        high == Len(SelectSeq(mapped, LAMBDA m : m.confidence >= 90))
        medium == Len(SelectSeq(mapped, LAMBDA m : m.confidence >= 60 /\ m.confidence < 90))
        low == Len(SelectSeq(mapped, LAMBDA m : m.confidence < 60))
    IN  [high |-> high, medium |-> medium, low |-> low,
         recommendation |-> IF low = 0 /\ UnmappedCount(mappings) = 0
                            THEN "AUTO_APPROVE" ELSE "HUMAN_CONFIRMATION"]

(* one band up for each condition seen in the context of the operation *)
generate_risk_assessment(operation, context) ==
    LET has(f) == f \in DOMAIN context
        factors == (IF has("unmapped_count") /\ context["unmapped_count"] > 0
                        THEN << "unmapped columns" >> ELSE << >>)
                   \o (IF has("average_confidence") /\ context["average_confidence"] < 60
                        THEN << "low average confidence" >> ELSE << >>)
                   \o (IF has("dry_run") /\ ~context["dry_run"]
                        THEN << "live execution" >> ELSE << >>)
    IN  [risk_level |-> CASE Len(factors) = 0 -> "LOW"
                          [] Len(factors) = 1 -> "MEDIUM"
                          [] OTHER -> "HIGH",
         risk_factors |-> factors]

(* An SQL text is kept as the sequence of its lexical tokens: a comment    *)
(* line, a quoted identifier, a word or a punctuation mark each are one    *)
(* token.  The safety check scans the words of the statement.              *)
IsComment(token) == Len(token) >= 2 /\ SubSeq(token, 1, 2) = "--"

StatementTokens(sql) == SelectSeq(sql, LAMBDA token : ~IsComment(token))

Words(sql) == { Lower(StatementTokens(sql)[i]) : i \in 1..Len(StatementTokens(sql)) }

validate_sql_query(sql) ==
    LET statement == StatementTokens(sql)
        words == Words(sql)
        error == IF Len(SelectSeq(statement, LAMBDA token : token = ";")) > 1
                 THEN "Multiple statements are not allowed"
                 ELSE IF "drop" \in words THEN "DROP is not allowed"
                 ELSE IF "delete" \in words /\ "where" \notin words
                      THEN "DELETE without WHERE is not allowed"
                 ELSE IF Len(statement) = 0 \/ Lower(statement[1]) \notin {"insert", "merge"}
                      THEN "Only a single INSERT or MERGE is allowed"
                 ELSE None
    IN  [is_valid |-> error = None,
         error |-> error,
         warnings |-> IF "null" \in words
                      THEN << "NULL-filled unmapped columns" >> ELSE << >>]

AuditEvent(category, event_type, payload, risk_level) ==
    [category |-> category, event_type |-> event_type,
     payload |-> payload, risk_level |-> risk_level]

log_audit_event(log, category, event_type, payload, risk_level) ==
    Append(log, AuditEvent(category, event_type, payload, risk_level))

(***************************************************************************)
(* SQL synthesis.                                                          *)
(***************************************************************************)
mapping_key(source_table, target_table) == source_table \o "_to_" \o target_table

IsIdentChar(c) ==
    c \in {"a","b","c","d","e","f","g","h","i","j","k","l","m","n","o","p","q",
           "r","s","t","u","v","w","x","y","z","A","B","C","D","E","F","G","H",
           "I","J","K","L","M","N","O","P","Q","R","S","T","U","V","W","X","Y",
           "Z","0","1","2","3","4","5","6","7","8","9","_","{","}"}

(* the tokens of an expression text from position i on: runs of identifier *)
(* characters and single punctuation marks, blanks skipped                 *)
RECURSIVE Tokens(_, _)
Tokens(text, i) ==
    IF i > Len(text) THEN << >>
    ELSE IF SubSeq(text, i, i) = " " THEN Tokens(text, i + 1)
    ELSE IF ~IsIdentChar(SubSeq(text, i, i))
         THEN << SubSeq(text, i, i) >> \o Tokens(text, i + 1)
    ELSE With({ j \in i..Len(text) : ~IsIdentChar(SubSeq(text, j, j)) }, LAMBDA stops :
            With(IF stops = {} THEN Len(text) + 1
                 ELSE CHOOSE j \in stops : \A k \in stops : j <= k,
                 LAMBDA end : << SubSeq(text, i, end - 1) >> \o Tokens(text, end)))

(* variant: the transformation is left out of the item *)
SelectColumnBare(m) ==
    IF m.source_column # None
    THEN << m.source_column, "AS", m.target_column >>
    ELSE << "NULL", "AS", m.target_column >>

(* one item of the SELECT list *)
SelectColumn(m) ==
    IF m.source_column # None
    THEN IF m.transformation # None
         THEN Tokens(ReplaceAll(m.transformation, "{source}", m.source_column), 1)
              \o << "AS", m.target_column >>
         ELSE << m.source_column, "AS", m.target_column >>
    ELSE << "NULL", "AS", m.target_column >>

SelectColumns(mappings) == [i \in 1..Len(mappings) |-> SelectColumn(mappings[i])]

(* sep.join(parts) on token sequences *)
RECURSIVE JoinTokens(_, _)
JoinTokens(sep, parts) ==
    IF Len(parts) = 0 THEN << >>
    ELSE IF Len(parts) = 1 THEN parts[1]
    ELSE parts[1] \o << sep >> \o JoinTokens(sep, Tail(parts))

SelectClause(mappings) == JoinTokens(",", SelectColumns(mappings))

(* the SQL identifier quote (the backquote), written as the apostrophe,     *)
(* which occurs nowhere else in the texts                                  *)
Quote == "'"

QualifiedTable(dataset, table) ==
    Quote \o ProjectId \o "." \o dataset \o "." \o table \o Quote

Percent(hundredths) == ToString(hundredths) \o "%"

InsertSql(source_table, target_table, mapping_data) ==
    << "-- Generated transformation: " \o source_table \o " -> " \o target_table,
       "-- Generated at: {timestamp}",
       "-- Mapping confidence: " \o Percent(mapping_data.average_confidence),
       "INSERT", "INTO", QualifiedTable(TargetDataset, target_table),
       "SELECT" >>
    \o SelectClause(mapping_data.mappings)
    \o << "FROM", QualifiedTable(SourceDataset, source_table), ";" >>

MergeKey(mappings) == mappings[1].target_column

MergeSql(source_table, target_table, mapping_data) ==
    LET ms == mapping_data.mappings
        mapped == Mapped(ms)
    IN  << "-- MERGE transformation: " \o source_table \o " -> " \o target_table,
           "-- Use this for incremental updates",
           "MERGE", QualifiedTable(TargetDataset, target_table), "AS", "target",
           "USING", "(", "SELECT" >>
        \o SelectClause(ms)
        \o << "FROM", QualifiedTable(SourceDataset, source_table), ")", "AS", "source",
              "ON", "target", ".", MergeKey(ms), "=", "source", ".", MergeKey(ms),
              "WHEN", "MATCHED", "THEN", "UPDATE", "SET" >>
        \o JoinTokens(",", [i \in 1..Len(mapped) |->
               << "target", ".", mapped[i].target_column, "=",
                  "source", ".", mapped[i].target_column >>])
        \o << "WHEN", "NOT", "MATCHED", "THEN", "INSERT", "(" >>
        \o JoinTokens(",", [i \in 1..Len(ms) |-> << ms[i].target_column >>])
        \o << ")", "VALUES", "(" >>
        \o JoinTokens(",", [i \in 1..Len(ms) |-> << "source", ".", ms[i].target_column >>])
        \o << ")", ";" >>

(***************************************************************************)
(* Session state, the audit sink, the reviewer and the warehouse.          *)
(***************************************************************************)
VARIABLES
    source_schema,       \* state["source_schema"], EmptyDict while absent
    target_schema,       \* state["target_schema"], EmptyDict while absent
    suggested_mappings,  \* state["suggested_mappings"]: mapping key -> result
    approved_mappings,   \* state["approved_mappings"]: mapping key -> result
    generated_sql,       \* state["generated_sql"]: mapping key -> result
    audit_log,           \* the events handed to the audit sink, in order
    pending,             \* approve_mappings calls waiting for the reviewer
    queries,             \* the queries submitted to the warehouse
    last,                \* what the caller saw last: a return value or a review request
    suggested_keys,      \* history: keys for which a suggestion was stored
    accepted_keys,       \* history: keys accepted by the reviewer
    generated_keys,      \* history: keys for which generation succeeded
    checked_sql,         \* history: the texts the SQL-safety check accepted
    reapproval_needed,   \* history: approved keys whose suggestion changed since
    clean,               \* history: approved keys with no suggestion stored since
                         \* the accepted call asked for review
    valid_tokens,        \* server.valid_tokens: the tokens the web server accepts
    issued_tokens,       \* history: the tokens generate_token has returned
    logged_out           \* history: the tokens that authenticated a served logout

vars == << source_schema, target_schema, suggested_mappings, approved_mappings,
           generated_sql, audit_log, pending, queries, last, suggested_keys,
           accepted_keys, generated_keys, checked_sql, reapproval_needed, clean,
           valid_tokens, issued_tokens, logged_out >>

stores == << suggested_mappings, approved_mappings, generated_sql >>

history == << suggested_keys, accepted_keys, generated_keys, checked_sql,
              reapproval_needed, clean >>

(* the web server's token store, with its history *)
server == << valid_tokens, issued_tokens, logged_out >>

(* valid_tokens: set = set() *)
ServerInit ==
    /\ valid_tokens = {}
    /\ issued_tokens = {}
    /\ logged_out = {}

(* a call as its caller sees it: the tool, its arguments, the value returned *)
Returned(op, args, value) == [op |-> op, args |-> args, value |-> value]

Tables(source_table, target_table) ==
    [source_table |-> source_table, target_table |-> target_table]

Init ==
    /\ source_schema = EmptyDict
    /\ target_schema = EmptyDict
    /\ suggested_mappings = EmptyDict
    /\ approved_mappings = EmptyDict
    /\ generated_sql = EmptyDict
    /\ audit_log = << >>
    /\ pending = << >>
    /\ queries = {}
    /\ last = Returned("start", EmptyDict, EmptyDict)
    /\ suggested_keys = {}
    /\ accepted_keys = {}
    /\ generated_keys = {}
    /\ checked_sql = {}
    /\ reapproval_needed = {}
    /\ clean = {}
    /\ ServerInit

(***************************************************************************)
(* Schema snapshots.                                                       *)
(***************************************************************************)
SnapshotTables(dataset_id) ==
    [i \in 1..Len(Catalog[dataset_id]) |->
        [table_name |-> Catalog[dataset_id][i].table_name,
         columns |-> [j \in 1..Len(Catalog[dataset_id][i].columns) |->
             [name |-> Catalog[dataset_id][i].columns[j].name,
              type |-> Catalog[dataset_id][i].columns[j].type,
              position |-> j]]]]

SchemaInfo(dataset_id) ==
    [dataset_id |-> dataset_id,
     project_id |-> ProjectId,
     tables |-> SnapshotTables(dataset_id),
     table_count |-> Len(SnapshotTables(dataset_id))]

MetadataError(dataset_id) == [error |-> "catalog query failed", dataset_id |-> dataset_id]

GetSourceSchema(dataset_id, ok) ==
        /\ source_schema' = IF ok THEN SchemaInfo(dataset_id) ELSE source_schema
        /\ last' = Returned("get_source_schema", [dataset_id |-> dataset_id],
                            IF ok THEN SchemaInfo(dataset_id) ELSE MetadataError(dataset_id))
        /\ UNCHANGED << target_schema, stores, audit_log, pending, queries, history >>
        /\ UNCHANGED server

(* variant: a failed catalog query clears the cached snapshot *)
GetTargetSchemaClears(dataset_id, ok) ==
        /\ target_schema' = IF ok THEN SchemaInfo(dataset_id) ELSE EmptyDict
        /\ last' = Returned("get_target_schema", [dataset_id |-> dataset_id],
                            IF ok THEN SchemaInfo(dataset_id) ELSE MetadataError(dataset_id))
        /\ UNCHANGED << source_schema, stores, audit_log, pending, queries, history >>
        /\ UNCHANGED server

GetTargetSchema(dataset_id, ok) ==
        /\ target_schema' = IF ok THEN SchemaInfo(dataset_id) ELSE target_schema
        /\ last' = Returned("get_target_schema", [dataset_id |-> dataset_id],
                            IF ok THEN SchemaInfo(dataset_id) ELSE MetadataError(dataset_id))
        /\ UNCHANGED << source_schema, stores, audit_log, pending, queries, history >>
        /\ UNCHANGED server

get_source_schema ==
    \E dataset_id \in SourceDatasetIds, ok \in BOOLEAN : GetSourceSchema(dataset_id, ok)

get_target_schema ==
    \E dataset_id \in TargetDatasetIds, ok \in BOOLEAN : GetTargetSchema(dataset_id, ok)

(***************************************************************************)
(* suggest_column_mappings.                                                *)
(***************************************************************************)
(* the columns of the first table of that name; none when there is no such *)
(* table, which the caller tests like an empty column dictionary            *)
FindTable(schema, table_name) ==
    LET hits == SelectSeq(schema.tables, LAMBDA t : t.table_name = table_name)
    IN  IF Len(hits) = 0 THEN << >> ELSE hits[1].columns

NoColumns(cols) == Len(cols) = 0

SchemaNotLoadedError(source_table, target_table) ==
    [error |-> "Schema information not available. Run get_source_schema and get_target_schema first.",
     source_table |-> source_table, target_table |-> target_table]

SourceTableNotFoundError(source_table) ==
    [error |-> "Source table '" \o source_table \o "' not found in schema."]

TargetTableNotFoundError(target_table) ==
    [error |-> "Target table '" \o target_table \o "' not found in schema."]

SuggestResult(source_table, target_table, source_cols, target_cols) ==
    LET mappings == Mappings(source_cols, target_cols)
        check == validate_mapping_output(mappings, ColumnNames(source_cols),
                                         ColumnNames(target_cols))
        analysis == validate_confidence_threshold(mappings)
        base == [source_table |-> source_table,
                 target_table |-> target_table,
                 mappings |-> mappings,
                 mapping_count |-> MappingCount(mappings),
                 unmapped_count |-> UnmappedCount(mappings),
                 average_confidence |-> AverageConfidence(mappings),
                 confidence_analysis |-> analysis,
                 recommendation |-> analysis.recommendation,
                 risk_assessment |-> generate_risk_assessment("MAPPING_SUGGEST",
                     [average_confidence |-> AverageConfidence(mappings),
                      unmapped_count |-> UnmappedCount(mappings)])]
    IN  IF check.is_valid THEN base
        ELSE base @@ [validation_error |-> check.error,
                      hallucinated_columns |-> check.hallucinated]

SuggestAudit(log, result) ==
    LET flagged == IF "validation_error" \in DOMAIN result
                   THEN log_audit_event(log, "MAPPING", "HALLUCINATION_PREVENTED",
                            [source_table |-> result.source_table,
                             target_table |-> result.target_table,
                             hallucinated |-> result.hallucinated_columns], "HIGH")
                   ELSE log
    IN  log_audit_event(flagged, "MAPPING", "MAPPINGS_SUGGESTED",
            [source_table |-> result.source_table,
             target_table |-> result.target_table,
             mapping_count |-> result.mapping_count,
             avg_confidence |-> result.average_confidence,
             recommendation |-> result.recommendation],
            result.risk_assessment.risk_level)

SuggestSchemaNotLoaded(source_table, target_table) ==
    /\ source_schema = EmptyDict \/ target_schema = EmptyDict
    /\ last' = Returned("suggest_column_mappings", Tables(source_table, target_table),
                        SchemaNotLoadedError(source_table, target_table))
    /\ UNCHANGED << source_schema, target_schema, stores, audit_log, pending,
                    queries, history >>
    /\ UNCHANGED server

(* variant: the table that was not found is reported to the audit sink *)
SuggestTableNotFoundAudited(source_table, target_table) ==
    /\ source_schema # EmptyDict /\ target_schema # EmptyDict
    /\ \/ NoColumns(FindTable(source_schema, source_table))
       \/ NoColumns(FindTable(target_schema, target_table))
    /\ Len(audit_log) < MaxAudit
    /\ audit_log' = log_audit_event(audit_log, "MAPPING", "MAPPINGS_SUGGESTED",
           [source_table |-> source_table, target_table |-> target_table,
            mapping_count |-> 0, avg_confidence |-> 0, recommendation |-> None], "LOW")
    /\ last' = Returned("suggest_column_mappings", Tables(source_table, target_table),
                        IF NoColumns(FindTable(source_schema, source_table))
                        THEN [error |-> "Source table '" \o source_table
                                         \o "' not found in schema."]
                        ELSE [error |-> "Target table '" \o target_table
                                         \o "' not found in schema."])
    /\ UNCHANGED << source_schema, target_schema, stores, pending, queries, history >>
    /\ UNCHANGED server

SuggestTableNotFound(source_table, target_table) ==
    /\ source_schema # EmptyDict /\ target_schema # EmptyDict
    /\ \/ NoColumns(FindTable(source_schema, source_table))
       \/ NoColumns(FindTable(target_schema, target_table))
    /\ last' = Returned("suggest_column_mappings", Tables(source_table, target_table),
                        IF NoColumns(FindTable(source_schema, source_table))
                        THEN SourceTableNotFoundError(source_table)
                        ELSE TargetTableNotFoundError(target_table))
    /\ UNCHANGED << source_schema, target_schema, stores, audit_log, pending,
                    queries, history >>
    /\ UNCHANGED server

(* a stored suggestion ends the freshness of the calls waiting on that key *)
Outdate(calls, key) ==
    [i \in 1..Len(calls) |->
        IF calls[i].mapping_key = key THEN [calls[i] EXCEPT !.fresh = FALSE]
        ELSE calls[i]]

StoreSuggestion(store, key, result) == Put(store, key, result)

SuggestStore(source_table, target_table) ==
    /\ source_schema # EmptyDict /\ target_schema # EmptyDict
    /\ ~NoColumns(FindTable(source_schema, source_table))
    /\ ~NoColumns(FindTable(target_schema, target_table))
    /\ LET key == mapping_key(source_table, target_table)
           result == SuggestResult(source_table, target_table,
                                   FindTable(source_schema, source_table),
                                   FindTable(target_schema, target_table))
       IN  /\ audit_log' = SuggestAudit(audit_log, result)
           /\ suggested_mappings' = StoreSuggestion(suggested_mappings, key, result)
           /\ last' = Returned("suggest_column_mappings",
                               Tables(source_table, target_table), result)
           /\ pending' = Outdate(pending, key)
           /\ suggested_keys' = suggested_keys \cup {key}
           /\ clean' = clean \ {key}
           /\ reapproval_needed' =
                 IF /\ key \in DOMAIN approved_mappings
                    /\ key \in DOMAIN suggested_mappings
                    /\ suggested_mappings[key] # result
                 THEN reapproval_needed \cup {key}
                 ELSE reapproval_needed
    /\ UNCHANGED << source_schema, target_schema, approved_mappings, generated_sql,
                    queries, accepted_keys, generated_keys, checked_sql >>
    /\ UNCHANGED server

suggest_column_mappings(room) ==
    \E source_table \in SourceTableArgs, target_table \in TargetTableArgs :
        \/ SuggestSchemaNotLoaded(source_table, target_table)
        \/ SuggestTableNotFound(source_table, target_table)
        \/ room /\ SuggestStore(source_table, target_table)

(***************************************************************************)
(* approve_mappings: the call asks for review, then the reviewer decides.  *)
(***************************************************************************)
NoSuggestionError(source_table, target_table) ==
    [error |-> "No suggested mappings found for " \o source_table \o " -> "
               \o target_table \o ". Run suggest_column_mappings first.",
     source_table |-> source_table, target_table |-> target_table]

MappingTable(mappings) ==
    [i \in 1..Len(mappings) |->
        [target |-> mappings[i].target_column,
         source |-> IF mappings[i].source_column # None
                    THEN mappings[i].source_column ELSE "(unmapped)",
         confidence |-> IF mappings[i].confidence # 0
                        THEN Percent(mappings[i].confidence) ELSE "N/A",
         transform |-> IF mappings[i].transformation # None
                       THEN mappings[i].transformation ELSE "direct",
         status |-> mappings[i].status]]

ConfirmationPayload(source_table, target_table, mapping_data) ==
    [title |-> "Column Mapping Approval: " \o source_table \o " -> " \o target_table,
     summary |-> [total_columns |-> Len(mapping_data.mappings),
                  mapped |-> mapping_data.mapping_count,
                  unmapped |-> mapping_data.unmapped_count,
                  avg_confidence |-> Percent(mapping_data.average_confidence)],
     risk_assessment |-> generate_risk_assessment("MAPPING_APPROVE",
         [average_confidence |-> mapping_data.average_confidence,
          unmapped_count |-> mapping_data.unmapped_count]),
     confidence_analysis |-> mapping_data.confidence_analysis,
     mappings |-> MappingTable(mapping_data.mappings)]

(* variant: the call without a suggestion is recorded as a rejection *)
ApproveNoSuggestionAudited(source_table, target_table) ==
    /\ mapping_key(source_table, target_table) \notin DOMAIN suggested_mappings
    /\ Len(audit_log) < MaxAudit
    /\ audit_log' = log_audit_event(audit_log, "MAPPING", "MAPPINGS_REJECTED",
           [source_table |-> source_table, target_table |-> target_table], "LOW")
    /\ last' = Returned("approve_mappings", Tables(source_table, target_table),
           [error |-> "No suggested mappings found for " \o source_table \o " -> "
                      \o target_table \o ". Run suggest_column_mappings first.",
            source_table |-> source_table, target_table |-> target_table])
    /\ UNCHANGED << source_schema, target_schema, stores, pending, queries, history >>
    /\ UNCHANGED server

ApproveNoSuggestion(source_table, target_table) ==
    /\ mapping_key(source_table, target_table) \notin DOMAIN suggested_mappings
    /\ last' = Returned("approve_mappings", Tables(source_table, target_table),
                        NoSuggestionError(source_table, target_table))
    /\ UNCHANGED << source_schema, target_schema, stores, audit_log, pending,
                    queries, history >>
    /\ UNCHANGED server

(* variant: the set is put into the approved store when the review is asked for *)
ApproveRequestEager(source_table, target_table) ==
    /\ mapping_key(source_table, target_table) \in DOMAIN suggested_mappings
    /\ LET key == mapping_key(source_table, target_table)
           mapping_data == suggested_mappings[key]
           payload == ConfirmationPayload(source_table, target_table, mapping_data)
       IN  /\ pending' = Append(pending,
                 [source_table |-> source_table, target_table |-> target_table,
                  mapping_key |-> key, mapping_data |-> mapping_data,
                  payload |-> payload, fresh |-> TRUE])
           /\ approved_mappings' = Put(approved_mappings, key, mapping_data)
           /\ last' = Returned("request_confirmation",
                               Tables(source_table, target_table), payload)
    /\ UNCHANGED << source_schema, target_schema, suggested_mappings, generated_sql,
                    audit_log, queries, history >>
    /\ UNCHANGED server

ApproveRequest(source_table, target_table) ==
    /\ mapping_key(source_table, target_table) \in DOMAIN suggested_mappings
    /\ LET key == mapping_key(source_table, target_table)
           mapping_data == suggested_mappings[key]
           payload == ConfirmationPayload(source_table, target_table, mapping_data)
       IN  /\ pending' = Append(pending,
                 [source_table |-> source_table, target_table |-> target_table,
                  mapping_key |-> key, mapping_data |-> mapping_data,
                  payload |-> payload, fresh |-> TRUE])
           /\ last' = Returned("request_confirmation",
                               Tables(source_table, target_table), payload)
    /\ UNCHANGED << source_schema, target_schema, stores, audit_log, queries, history >>
    /\ UNCHANGED server

(* the arguments of the call together with the reviewer's answer *)
Decision(call, approved) ==
    [source_table |-> call.source_table, target_table |-> call.target_table,
     approved |-> approved]

Remove(calls, i) == SubSeq(calls, 1, i - 1) \o SubSeq(calls, i + 1, Len(calls))

(* variant: the approved set is filed under the key of another pair *)
StoreApprovedOtherKey(store, call) ==
    Put(store, mapping_key(call.source_table, "fee"), call.mapping_data)

(* variant: the set stored is the one in the suggested store at decision time *)
StoreApprovedLatest(store, call) ==
    Put(store, call.mapping_key, suggested_mappings[call.mapping_key])

StoreApproved(store, call) == Put(store, call.mapping_key, call.mapping_data)

(* variant: an approval that overwrites an approved entry is logged twice *)
ApprovedAuditTwice(log, call) ==
    LET event == AuditEvent("MAPPING", "MAPPINGS_APPROVED",
                     [source_table |-> call.source_table,
                      target_table |-> call.target_table,
                      mapping_count |-> call.mapping_data.mapping_count,
                      avg_confidence |-> call.mapping_data.average_confidence], "LOW")
    IN  IF call.mapping_key \in DOMAIN approved_mappings
        THEN log \o << event, event >>
        ELSE Append(log, event)

ApprovedAudit(log, call) ==
    log_audit_event(log, "MAPPING", "MAPPINGS_APPROVED",
        [source_table |-> call.source_table,
         target_table |-> call.target_table,
         mapping_count |-> call.mapping_data.mapping_count,
         avg_confidence |-> call.mapping_data.average_confidence], "LOW")

(* variant: the rejection is logged as a high-risk event *)
RejectedAuditHigh(log, call) ==
    log_audit_event(log, "MAPPING", "MAPPINGS_REJECTED",
        [source_table |-> call.source_table,
         target_table |-> call.target_table], "HIGH")

RejectedAudit(log, call) ==
    log_audit_event(log, "MAPPING", "MAPPINGS_REJECTED",
        [source_table |-> call.source_table,
         target_table |-> call.target_table], "LOW")

ApprovedReturn(call) ==
    [status |-> "approved",
     source_table |-> call.source_table,
     target_table |-> call.target_table,
     mapping_count |-> call.mapping_data.mapping_count,
     message |-> "Mappings approved. Ready to generate transformation SQL."]

RejectedReturn(call) ==
    [status |-> "rejected",
     source_table |-> call.source_table,
     target_table |-> call.target_table,
     message |-> "Mappings rejected. Please provide feedback for adjustments."]

(* variant: the accepted approval is stored without an audit event *)
ApproveAcceptSilent(i) ==
    /\ i \in 1..Len(pending)
    /\ LET call == pending[i]
       IN  /\ approved_mappings' = StoreApproved(approved_mappings, call)
           /\ last' = Returned("approve_mappings", Decision(call, TRUE), ApprovedReturn(call))
           /\ accepted_keys' = accepted_keys \cup {call.mapping_key}
           /\ clean' = IF call.fresh THEN clean \cup {call.mapping_key}
                       ELSE clean \ {call.mapping_key}
           /\ reapproval_needed' =
                 IF /\ call.mapping_key \in DOMAIN suggested_mappings
                    /\ call.mapping_data = suggested_mappings[call.mapping_key]
                 THEN reapproval_needed \ {call.mapping_key}
                 ELSE reapproval_needed
    /\ pending' = Remove(pending, i)
    /\ UNCHANGED << source_schema, target_schema, suggested_mappings, generated_sql,
                    audit_log, queries, suggested_keys, generated_keys, checked_sql >>
    /\ UNCHANGED server

ApproveAccept(i) ==
    /\ i \in 1..Len(pending)
    /\ LET call == pending[i]
       IN  /\ approved_mappings' = StoreApproved(approved_mappings, call)
           /\ audit_log' = ApprovedAudit(audit_log, call)
           /\ last' = Returned("approve_mappings", Decision(call, TRUE), ApprovedReturn(call))
           /\ accepted_keys' = accepted_keys \cup {call.mapping_key}
           /\ clean' = IF call.fresh THEN clean \cup {call.mapping_key}
                       ELSE clean \ {call.mapping_key}
           /\ reapproval_needed' =
                 IF /\ call.mapping_key \in DOMAIN suggested_mappings
                    /\ call.mapping_data = suggested_mappings[call.mapping_key]
                 THEN reapproval_needed \ {call.mapping_key}
                 ELSE reapproval_needed
    /\ pending' = Remove(pending, i)
    /\ UNCHANGED << source_schema, target_schema, suggested_mappings, generated_sql,
                    queries, suggested_keys, generated_keys, checked_sql >>
    /\ UNCHANGED server

(* variant: the reviewer's answer is not looked at before the store is written *)
ApproveRejectStores(i) ==
    /\ i \in 1..Len(pending)
    /\ approved_mappings' = Put(approved_mappings, pending[i].mapping_key,
                                 pending[i].mapping_data)
    /\ audit_log' = log_audit_event(audit_log, "MAPPING", "MAPPINGS_REJECTED",
           [source_table |-> pending[i].source_table,
            target_table |-> pending[i].target_table], "LOW")
    /\ last' = Returned("approve_mappings", Decision(pending[i], FALSE),
                        [status |-> "rejected",
                         source_table |-> pending[i].source_table,
                         target_table |-> pending[i].target_table,
                         message |-> "Mappings rejected. Please provide feedback for adjustments."])
    /\ pending' = Remove(pending, i)
    /\ UNCHANGED << source_schema, target_schema, suggested_mappings, generated_sql,
                    queries, history >>
    /\ UNCHANGED server

ApproveReject(i) ==
    /\ i \in 1..Len(pending)
    /\ audit_log' = RejectedAudit(audit_log, pending[i])
    /\ last' = Returned("approve_mappings", Decision(pending[i], FALSE),
                        RejectedReturn(pending[i]))
    /\ pending' = Remove(pending, i)
    /\ UNCHANGED << source_schema, target_schema, stores, queries, history >>
    /\ UNCHANGED server

approve_mappings(room) ==
    \E source_table \in SourceTableArgs, target_table \in TargetTableArgs :
        \/ ApproveNoSuggestion(source_table, target_table)
        \/ room /\ ApproveRequest(source_table, target_table)

(* the reviewer answers one of the waiting calls; request_confirmation returns *)
request_confirmation ==
    \E i \in 1..Len(pending) : ApproveAccept(i) \/ ApproveReject(i)

(***************************************************************************)
(* generate_transformation_sql.                                            *)
(***************************************************************************)
NotApprovedError(source_table, target_table) ==
    [error |-> "No approved mappings found for " \o source_table \o " -> "
               \o target_table \o ". Run approve_mappings first.",
     source_table |-> source_table, target_table |-> target_table]

SqlValidationError(source_table, target_table, sql_error) ==
    [status |-> "error",
     source_table |-> source_table,
     target_table |-> target_table,
     error |-> sql_error,
     message |-> "Generated SQL failed validation. Please review mappings."]

(* the text handed to the SQL-safety check *)
SqlToCheck(insert_sql, merge_sql) == << insert_sql >>

SqlVerdict(insert_sql, merge_sql) ==
    LET verdicts == [i \in 1..Len(SqlToCheck(insert_sql, merge_sql)) |->
                        validate_sql_query(SqlToCheck(insert_sql, merge_sql)[i])]
        failed == SelectSeq(verdicts, LAMBDA v : ~v.is_valid)
    IN  IF Len(failed) > 0 THEN failed[1] ELSE verdicts[1]

(* sql[:200], the head of the text: its comment lines and the INSERT INTO *)
SqlPreview(sql) == SubSeq(sql, 1, 6)

GeneratedResult(source_table, target_table, mapping_data, insert_sql, merge_sql, verdict) ==
    [source_table |-> source_table,
     target_table |-> target_table,
     insert_sql |-> insert_sql,
     merge_sql |-> merge_sql,
     column_count |-> Len(mapping_data.mappings),
     mapped_count |-> mapping_data.mapping_count,
     sql_validation |-> [status |-> "passed", warnings |-> verdict.warnings],
     risk_assessment |-> generate_risk_assessment("SQL_EXECUTE",
         [source_table |-> source_table, target_table |-> target_table])]

(* variant: the missing approval is reported to the audit sink *)
GenerateNotApprovedAudited(source_table, target_table) ==
    /\ mapping_key(source_table, target_table) \notin DOMAIN approved_mappings
    /\ Len(audit_log) < MaxAudit
    /\ audit_log' = log_audit_event(audit_log, "SQL_GENERATION", "INVALID_SQL_BLOCKED",
           [error |-> "not approved", sql_preview |-> << >>], "HIGH")
    /\ last' = Returned("generate_transformation_sql", Tables(source_table, target_table),
           [error |-> "No approved mappings found for " \o source_table \o " -> "
                      \o target_table \o ". Run approve_mappings first.",
            source_table |-> source_table, target_table |-> target_table])
    /\ UNCHANGED << source_schema, target_schema, stores, pending, queries, history >>
    /\ UNCHANGED server

GenerateNotApproved(source_table, target_table) ==
    /\ mapping_key(source_table, target_table) \notin DOMAIN approved_mappings
    /\ last' = Returned("generate_transformation_sql", Tables(source_table, target_table),
                        NotApprovedError(source_table, target_table))
    /\ UNCHANGED << source_schema, target_schema, stores, audit_log, pending,
                    queries, history >>
    /\ UNCHANGED server

StoreGenerated(store, key, result) == Put(store, key, result)

(* variant: the result is stored before the check has answered *)
GenerateSqlStoresFirst(source_table, target_table) ==
    /\ mapping_key(source_table, target_table) \in DOMAIN approved_mappings
    /\ LET key == mapping_key(source_table, target_table)
           mapping_data == approved_mappings[key]
           insert_sql == InsertSql(source_table, target_table, mapping_data)
           merge_sql == MergeSql(source_table, target_table, mapping_data)
           verdict == validate_sql_query(insert_sql)
           result == [source_table |-> source_table, target_table |-> target_table,
                      insert_sql |-> insert_sql, merge_sql |-> merge_sql,
                      column_count |-> Len(mapping_data.mappings),
                      mapped_count |-> mapping_data.mapping_count,
                      sql_validation |-> [status |-> "passed",
                                          warnings |-> verdict.warnings],
                      risk_assessment |-> generate_risk_assessment("SQL_EXECUTE",
                          [source_table |-> source_table, target_table |-> target_table])]
       IN  /\ generated_sql' = Put(generated_sql, key, result)
           /\ IF ~verdict.is_valid
              THEN /\ audit_log' = log_audit_event(audit_log, "SQL_GENERATION",
                         "INVALID_SQL_BLOCKED",
                         [error |-> verdict.error, sql_preview |-> SubSeq(insert_sql, 1, 6)],
                         "HIGH")
                   /\ last' = Returned("generate_transformation_sql",
                         Tables(source_table, target_table),
                         [status |-> "error", source_table |-> source_table,
                          target_table |-> target_table, error |-> verdict.error,
                          message |-> "Generated SQL failed validation. Please review mappings."])
                   /\ UNCHANGED << generated_keys, checked_sql >>
              ELSE /\ audit_log' = log_audit_event(audit_log, "SQL_GENERATION",
                         "SQL_GENERATED",
                         [source_table |-> source_table, target_table |-> target_table,
                          column_count |-> result.column_count,
                          warnings_count |-> Len(verdict.warnings)], "MEDIUM")
                   /\ last' = Returned("generate_transformation_sql",
                         Tables(source_table, target_table), result)
                   /\ generated_keys' = generated_keys \cup {key}
                   /\ checked_sql' = checked_sql \cup {insert_sql}
    /\ UNCHANGED << source_schema, target_schema, suggested_mappings, approved_mappings,
                    pending, queries, suggested_keys, accepted_keys,
                    reapproval_needed, clean >>
    /\ UNCHANGED server

(* synthesis for an approved pair: blocked by the check, or stored *)
GenerateSql(source_table, target_table) ==
    /\ mapping_key(source_table, target_table) \in DOMAIN approved_mappings
    /\ LET key == mapping_key(source_table, target_table)
           mapping_data == approved_mappings[key]
           insert_sql == InsertSql(source_table, target_table, mapping_data)
           merge_sql == MergeSql(source_table, target_table, mapping_data)
           verdict == SqlVerdict(insert_sql, merge_sql)
           result == GeneratedResult(source_table, target_table, mapping_data,
                                     insert_sql, merge_sql, verdict)
       IN  IF ~verdict.is_valid
           THEN /\ audit_log' = log_audit_event(audit_log, "SQL_GENERATION",
                      "INVALID_SQL_BLOCKED",
                      [error |-> verdict.error, sql_preview |-> SqlPreview(insert_sql)],
                      "HIGH")
                /\ last' = Returned("generate_transformation_sql", Tables(source_table, target_table),
                      SqlValidationError(source_table, target_table, verdict.error))
                /\ UNCHANGED << generated_sql, generated_keys, checked_sql >>
           ELSE /\ audit_log' = log_audit_event(audit_log, "SQL_GENERATION",
                      "SQL_GENERATED",
                      [source_table |-> source_table,
                       target_table |-> target_table,
                       column_count |-> result.column_count,
                       warnings_count |-> Len(result.sql_validation.warnings)], "MEDIUM")
                /\ generated_sql' = StoreGenerated(generated_sql, key, result)
                /\ last' = Returned("generate_transformation_sql",
                                    Tables(source_table, target_table), result)
                /\ generated_keys' = generated_keys \cup {key}
                /\ checked_sql' = checked_sql
                       \cup { SqlToCheck(insert_sql, merge_sql)[i] :
                                  i \in 1..Len(SqlToCheck(insert_sql, merge_sql)) }
    /\ UNCHANGED << source_schema, target_schema, suggested_mappings, approved_mappings,
                    pending, queries, suggested_keys, accepted_keys,
                    reapproval_needed, clean >>
    /\ UNCHANGED server

generate_transformation_sql(room) ==
    \E source_table \in SourceTableArgs, target_table \in TargetTableArgs :
        \/ GenerateNotApproved(source_table, target_table)
        \/ room /\ GenerateSql(source_table, target_table)

(***************************************************************************)
(* execute_transformation.                                                 *)
(***************************************************************************)
NoSqlGeneratedError(source_table, target_table) ==
    [error |-> "No generated SQL found for " \o source_table \o " -> "
               \o target_table \o ". Run generate_transformation_sql first.",
     source_table |-> source_table, target_table |-> target_table]

(* what the warehouse reports for a query it accepts *)
BytesProcessed == 1024
RowsAffected == 3
JobId == "job_1"
WarehouseErrorText == "400 query rejected"

(* insert_sql.replace("{timestamp}", "NOW()") *)
ExecutedSql(sql_data) ==
    [i \in 1..Len(sql_data.insert_sql) |->
        ReplaceAll(sql_data.insert_sql[i], "{timestamp}", "NOW()")]

(* the dry_run argument as the caller passes it: left out, or given *)
DryRunArgs == { << >>, << TRUE >>, << FALSE >> }

(* variant: a call without the argument runs live *)
DryRunDefaultLive == FALSE

(* dry_run: bool = True *)
DryRunDefault == TRUE

DryRun(dry_run) == IF Len(dry_run) = 0 THEN DryRunDefault ELSE dry_run[1]

Execution(source_table, target_table, dry_run) ==
    [source_table |-> source_table, target_table |-> target_table,
     dry_run |-> DryRun(dry_run), omitted |-> Len(dry_run) = 0]

(* a query handed to the warehouse client, with the warehouse's answer *)
Submission(key, sql, dry_run, ok) ==
    [mapping_key |-> key, sql |-> sql, dry_run |-> dry_run, accepted |-> ok]

(* variant: the warehouse client is asked before the store is looked at *)
ExecuteNoSqlSubmits(source_table, target_table, dry_run) ==
    /\ mapping_key(source_table, target_table) \notin DOMAIN generated_sql
    /\ queries' = queries \cup {[mapping_key |-> mapping_key(source_table, target_table),
                                  sql |-> << >>, dry_run |-> DryRun(dry_run),
                                  accepted |-> TRUE]}
    /\ last' = Returned("execute_transformation",
           Execution(source_table, target_table, dry_run),
           [error |-> "No generated SQL found for " \o source_table \o " -> "
                      \o target_table \o ". Run generate_transformation_sql first.",
            source_table |-> source_table, target_table |-> target_table])
    /\ UNCHANGED << source_schema, target_schema, stores, audit_log, pending, history >>
    /\ UNCHANGED server

ExecuteNoSql(source_table, target_table, dry_run) ==
    /\ mapping_key(source_table, target_table) \notin DOMAIN generated_sql
    /\ last' = Returned("execute_transformation",
                        Execution(source_table, target_table, dry_run),
                        NoSqlGeneratedError(source_table, target_table))
    /\ UNCHANGED << source_schema, target_schema, stores, audit_log, pending,
                    queries, history >>
    /\ UNCHANGED server

(* variant: a refused query is reported as a warning of medium risk *)
ExecuteOutcomeMedium(source_table, target_table, dry_run, ok) ==
    IF ~ok
    THEN [event_type |-> "SQL_ERROR", risk_level |-> "MEDIUM",
          payload |-> [source_table |-> source_table, target_table |-> target_table,
                       error |-> WarehouseErrorText],
          value |-> [status |-> "error", source_table |-> source_table,
                     target_table |-> target_table, error |-> WarehouseErrorText]]
    ELSE IF dry_run
    THEN [event_type |-> "SQL_VALIDATED", risk_level |-> "LOW",
          payload |-> [source_table |-> source_table, target_table |-> target_table,
                       bytes_processed |-> BytesProcessed],
          value |-> [status |-> "validated", source_table |-> source_table,
                     target_table |-> target_table, bytes_processed |-> BytesProcessed,
                     message |-> "SQL validated successfully. Set dry_run=False to execute.",
                     risk_note |-> "Dry run completed - no data was modified"]]
    ELSE [event_type |-> "SQL_EXECUTED", risk_level |-> "HIGH",
          payload |-> [source_table |-> source_table, target_table |-> target_table,
                       rows_affected |-> RowsAffected, job_id |-> JobId],
          value |-> [status |-> "executed", source_table |-> source_table,
                     target_table |-> target_table, rows_affected |-> RowsAffected,
                     job_id |-> JobId,
                     message |-> "Transformation executed successfully."]]

ExecuteOutcome(source_table, target_table, dry_run, ok) ==
    IF ~ok
    THEN [event_type |-> "SQL_ERROR", risk_level |-> "HIGH",
          payload |-> [source_table |-> source_table, target_table |-> target_table,
                       error |-> WarehouseErrorText],
          value |-> [status |-> "error", source_table |-> source_table,
                     target_table |-> target_table, error |-> WarehouseErrorText]]
    ELSE IF dry_run
    THEN [event_type |-> "SQL_VALIDATED", risk_level |-> "LOW",
          payload |-> [source_table |-> source_table, target_table |-> target_table,
                       bytes_processed |-> BytesProcessed],
          value |-> [status |-> "validated", source_table |-> source_table,
                     target_table |-> target_table, bytes_processed |-> BytesProcessed,
                     message |-> "SQL validated successfully. Set dry_run=False to execute.",
                     risk_note |-> "Dry run completed - no data was modified"]]
    ELSE [event_type |-> "SQL_EXECUTED", risk_level |-> "HIGH",
          payload |-> [source_table |-> source_table, target_table |-> target_table,
                       rows_affected |-> RowsAffected, job_id |-> JobId],
          value |-> [status |-> "executed", source_table |-> source_table,
                     target_table |-> target_table, rows_affected |-> RowsAffected,
                     job_id |-> JobId,
                     message |-> "Transformation executed successfully."]]

(* variant: the text that was submitted is written back into the stored entry *)
ExecuteSubmitKeepsText(source_table, target_table, dry_run, ok) ==
    /\ mapping_key(source_table, target_table) \in DOMAIN generated_sql
    /\ LET key == mapping_key(source_table, target_table)
           sql == ExecutedSql(generated_sql[key])
           outcome == ExecuteOutcome(source_table, target_table, DryRun(dry_run), ok)
       IN  /\ queries' = queries \cup {Submission(key, sql, DryRun(dry_run), ok)}
           /\ generated_sql' = [generated_sql EXCEPT ![key].insert_sql = sql]
           /\ audit_log' = log_audit_event(audit_log, "SQL_EXECUTION",
                 outcome.event_type, outcome.payload, outcome.risk_level)
           /\ last' = Returned("execute_transformation",
                               Execution(source_table, target_table, dry_run),
                               outcome.value)
    /\ UNCHANGED << source_schema, target_schema, suggested_mappings, approved_mappings,
                    pending, history >>
    /\ UNCHANGED server

ExecuteSubmit(source_table, target_table, dry_run, ok) ==
    /\ mapping_key(source_table, target_table) \in DOMAIN generated_sql
    /\ LET key == mapping_key(source_table, target_table)
           sql == ExecutedSql(generated_sql[key])
           outcome == ExecuteOutcome(source_table, target_table, DryRun(dry_run), ok)
       IN  /\ queries' = queries \cup {Submission(key, sql, DryRun(dry_run), ok)}
           /\ audit_log' = log_audit_event(audit_log, "SQL_EXECUTION",
                 outcome.event_type, outcome.payload, outcome.risk_level)
           /\ last' = Returned("execute_transformation",
                               Execution(source_table, target_table, dry_run),
                               outcome.value)
    /\ UNCHANGED << source_schema, target_schema, stores, pending, history >>
    /\ UNCHANGED server

execute_transformation(room) ==
    \E source_table \in SourceTableArgs, target_table \in TargetTableArgs,
       dry_run \in DryRunArgs :
        \/ ExecuteNoSql(source_table, target_table, dry_run)
        \/ room /\ \E ok \in BOOLEAN :
                       ExecuteSubmit(source_table, target_table, dry_run, ok)

(* The session is synchronous and single-threaded: a tool call runs to its  *)
(* return before the next one starts, and approve_mappings blocks inside     *)
(* request_confirmation until the reviewer has answered.                     *)
Blocked == Len(pending) > 0

(* the audit log of the run has room for one more event beside the answers *)
(* still awaited                                                             *)
Room(n) == Len(audit_log) + Len(pending) < n

Next ==
    \/ ~Blocked /\ get_source_schema
    \/ ~Blocked /\ get_target_schema
    \/ ~Blocked /\ suggest_column_mappings(Room(MaxAudit))
    \/ ~Blocked /\ approve_mappings(Room(MaxAudit))
    \/ ~Blocked /\ generate_transformation_sql(Room(MaxAudit))
    \/ ~Blocked /\ execute_transformation(Room(MaxAudit))
    \/ request_confirmation

Spec == Init /\ [][Next]_vars

(* the session with a reviewer who answers every request for review *)
SpecAnswered == Spec /\ WF_vars(request_confirmation)

(***************************************************************************)
(* Longer runs of suggestion, approval and synthesis on the one table pair *)
(* loan -> loan: the catalog answers, the reviewer accepts, and the calls   *)
(* that fail their precondition are left out.                              *)
(***************************************************************************)
RoundsNext ==
    \/ ~Blocked /\ GetSourceSchema("lend_src", TRUE)
    \/ ~Blocked /\ \E dataset_id \in TargetDatasetIds : GetTargetSchema(dataset_id, TRUE)
    \/ ~Blocked /\ Room(MaxRoundsAudit) /\ SuggestStore("loan", "loan")
    \/ ~Blocked /\ Room(MaxRoundsAudit) /\ ApproveRequest("loan", "loan")
    \/ ~Blocked /\ Room(MaxRoundsAudit) /\ GenerateSql("loan", "loan")
    \/ \E i \in 1..Len(pending) : ApproveAccept(i)

SpecRounds == Init /\ [][RoundsNext]_vars

(***************************************************************************)
(* A session on the customer datasets, where the table names passed to the *)
(* tools range over names with and without the text _to_ in them.          *)
(***************************************************************************)
PairsNext ==
    \/ ~Blocked /\ GetSourceSchema("crm_src", TRUE)
    \/ ~Blocked /\ GetTargetSchema("crm_tgt", TRUE)
    \/ ~Blocked /\ \E source_table \in PairSourceArgs, target_table \in PairTargetArgs :
           \/ SuggestSchemaNotLoaded(source_table, target_table)
           \/ SuggestTableNotFound(source_table, target_table)
           \/ Room(MaxPairsAudit) /\ SuggestStore(source_table, target_table)
    \/ ~Blocked /\ \E source_table \in PairSourceArgs, target_table \in PairTargetArgs :
           \/ ApproveNoSuggestion(source_table, target_table)
           \/ Room(MaxPairsAudit) /\ ApproveRequest(source_table, target_table)
    \/ ~Blocked /\ \E source_table \in PairSourceArgs, target_table \in PairTargetArgs :
           \/ GenerateNotApproved(source_table, target_table)
           \/ Room(MaxPairsAudit) /\ GenerateSql(source_table, target_table)
    \/ request_confirmation

SpecPairs == Init /\ [][PairsNext]_vars

(***************************************************************************)
(* Mapping inference on drawn tables: both snapshots are cached, each with *)
(* one table, and suggest_column_mappings is called on the pair once.      *)
(***************************************************************************)
InferSnapshot(dataset_id, cols) ==
    [dataset_id |-> dataset_id,
     project_id |-> ProjectId,
     tables |-> << [table_name |-> InferTable,
                    columns |-> [j \in 1..Len(cols) |->
                        [name |-> cols[j].name, type |-> cols[j].type,
                         position |-> j]]] >>,
     table_count |-> 1]

InferInit ==
    /\ source_schema \in { InferSnapshot(SourceDataset, cols) :
                               cols \in ColumnLists(InferSourceNames, InferSourceTypes,
                                                    MaxSourceCols) }
    /\ target_schema \in { InferSnapshot(TargetDataset, cols) :
                               cols \in ColumnLists(InferTargetNames, InferTargetTypes,
                                                    MaxTargetCols) }
    /\ suggested_mappings = EmptyDict
    /\ approved_mappings = EmptyDict
    /\ generated_sql = EmptyDict
    /\ audit_log = << >>
    /\ pending = << >>
    /\ queries = {}
    /\ last = Returned("start", EmptyDict, EmptyDict)
    /\ suggested_keys = {}
    /\ accepted_keys = {}
    /\ generated_keys = {}
    /\ checked_sql = {}
    /\ reapproval_needed = {}
    /\ clean = {}
    /\ ServerInit

InferNext ==
    /\ suggested_mappings = EmptyDict
    /\ SuggestStore(InferTable, InferTable)

SpecInfer == InferInit /\ [][InferNext]_vars

(***************************************************************************)
(* Synthesis on drawn tables: the pair is suggested, the reviewer accepts  *)
(* the set, and generate_transformation_sql is called on it once.          *)
(***************************************************************************)
SynthNext ==
    \/ InferNext
    \/ /\ ~Blocked
       /\ DOMAIN approved_mappings = {}
       /\ ApproveRequest(InferTable, InferTable)
    \/ ApproveAccept(1)
    \/ /\ DOMAIN generated_sql = {}
       /\ GenerateSql(InferTable, InferTable)

SpecSynth == InferInit /\ [][SynthNext]_vars

(***************************************************************************)
(* Overlapping calls on the pair loan -> loan: while approve_mappings      *)
(* waits in request_confirmation, the snapshots may be reloaded, the pair  *)
(* suggested again and a second approval requested; the waiting calls are  *)
(* answered in any order.                                                  *)
(***************************************************************************)
RaceNext ==
    \/ GetSourceSchema("lend_src", TRUE)
    \/ \E dataset_id \in TargetDatasetIds : GetTargetSchema(dataset_id, TRUE)
    \/ Room(MaxRaceAudit) /\ SuggestStore("loan", "loan")
    \/ Room(MaxRaceAudit) /\ Len(pending) < MaxWaiting /\ ApproveRequest("loan", "loan")
    \/ \E i \in 1..Len(pending) : ApproveAccept(i)
    \/ \E i \in 1..Len(pending) : ApproveReject(i)

SpecRace == Init /\ [][RaceNext]_vars

(***************************************************************************)
(* Rounds on the pair loan -> loan that go on to execution: the pair is    *)
(* suggested, approved and synthesized, the target snapshot may be         *)
(* reloaded and the pair suggested and approved again, and                 *)
(* execute_transformation is called at any point in between.               *)
(***************************************************************************)
StaleNext ==
    \/ ~Blocked /\ GetSourceSchema("lend_src", TRUE)
    \/ ~Blocked /\ \E dataset_id \in TargetDatasetIds : GetTargetSchema(dataset_id, TRUE)
    \/ ~Blocked /\ Room(MaxStaleAudit) /\ SuggestStore("loan", "loan")
    \/ ~Blocked /\ Room(MaxStaleAudit) /\ ApproveRequest("loan", "loan")
    \/ ~Blocked /\ Room(MaxStaleAudit) /\ GenerateSql("loan", "loan")
    \/ ~Blocked /\ Room(MaxStaleAudit) /\ \E dry_run \in DryRunArgs, ok \in BOOLEAN :
                                             ExecuteSubmit("loan", "loan", dry_run, ok)
    \/ \E i \in 1..Len(pending) : ApproveAccept(i)

SpecStale == Init /\ [][StaleNext]_vars

(***************************************************************************)
(* The name rule on its own: _similar_names is called on two column names  *)
(* drawn from names with a prefix, with a shared or a different suffix,    *)
(* in capitals, and with the text of a prefix inside the name.             *)
(***************************************************************************)
SimilarNameArgs ==
    { "order_total", "order_src_total", "SRC_order_total", "artifact_id", "arti_id",
      "cust_id", "customer_key", "stg_cust_id", "amount", "fact_amount", "tgt_amt" }

SimilarNames(name1, name2) ==
    /\ last' = Returned("_similar_names", [name1 |-> name1, name2 |-> name2],
                        _similar_names(name1, name2))
    /\ UNCHANGED << source_schema, target_schema, stores, audit_log, pending,
                    queries, history >>
    /\ UNCHANGED server

SimilarNext == \E name1 \in SimilarNameArgs, name2 \in SimilarNameArgs :
                   SimilarNames(name1, name2)

SpecSimilar == Init /\ [][SimilarNext]_vars

(***************************************************************************)
(* The web server (server.py): a password login that issues tokens, and a  *)
(* middleware in front of every route. A step serves one request, the      *)
(* middleware and the route handler together.                              *)
(***************************************************************************)
APP_PASSWORD == "aimagna@2025"

PasswordArgs == { APP_PASSWORD, "guess", "" }

(* secrets.token_urlsafe(32): a text not returned before *)
TokenNames == << "tok_a", "tok_b", "tok_c", "tok_d" >>

AuthTokens == { TokenNames[i] : i \in 1..MaxTokens }

EXCLUDED_PATHS == { "/", "/auth/login", "/auth/check", "/favicon.ico" }

(* the paths routed to the ADK application *)
AdkPaths == { "/favicon.ico", "/api/run", "/dev-ui/" }

(* a request: its path, the X-Auth-Token header, the token query parameter, *)
(* the auth_token cookie, the Accept header and the password of its body    *)
Request(path, header, query, cookie, accept, password) ==
    [path |-> path, header |-> header, query |-> query, cookie |-> cookie,
     accept |-> accept, password |-> password]

(* the requests of a run: the protected paths with every placement of the  *)
(* tokens, the other paths with fewer                                      *)
Requests ==
    { Request(path, header, query, cookie, "text/html", None) :
          path \in { "/auth/logout", "/api/run", "/dev-ui/" },
          header \in { None, "" } \cup AuthTokens,
          query \in { None } \cup AuthTokens,
          cookie \in { None } \cup AuthTokens }
    \cup { Request("/dev-ui/", header, None, cookie, "application/json", None) :
               header \in { None } \cup AuthTokens,
               cookie \in { None } \cup AuthTokens }
    \cup { Request("/auth/check", header, None, cookie, "application/json", None) :
               header \in { None, "" } \cup AuthTokens,
               cookie \in { None } \cup AuthTokens }
    \cup { Request(path, header, None, None, "text/html", None) :
               path \in { "/", "/favicon.ico" },
               header \in { None } \cup AuthTokens }
    \cup { Request("/auth/login", None, None, None, "application/json", password) :
               password \in PasswordArgs }

(* `not token`: the value is missing or empty *)
Missing(token) == token = None \/ token = ""

validate_token(token) == token \in valid_tokens

(* variant: the cookie is looked at before the header and the parameter *)
DispatchTokenCookieFirst(request) ==
    IF ~Missing(request.cookie) THEN request.cookie
    ELSE IF ~Missing(request.header) THEN request.header
    ELSE request.query

(* the token dispatch takes from the request *)
DispatchToken(request) ==
    IF ~Missing(request.header) THEN request.header
    ELSE IF ~Missing(request.query) THEN request.query
    ELSE request.cookie

(* dispatch hands the request to call_next *)
Forwarded(request) ==
    \/ request.path \in EXCLUDED_PATHS
    \/ /\ ~Missing(DispatchToken(request))
       /\ validate_token(DispatchToken(request))

Response(status, forwarded, content) ==
    [status |-> status, forwarded |-> forwarded, content |-> content]

Served(request, response) == last' = Returned("request", request, response)

ToolState == << source_schema, target_schema, stores, audit_log, pending, queries,
                history >>

(* dispatch answers the request itself *)
AuthRequired(request) ==
    /\ ~Forwarded(request)
    /\ Served(request,
              IF StartsWith(request.path, "/api") \/ request.accept = "application/json"
              THEN Response(401, FALSE, [detail |-> "Authentication required"])
              ELSE Response(401, FALSE, "redirect to login"))
    /\ UNCHANGED << ToolState, server >>

login_page(request) ==
    /\ request.path = "/"
    /\ Forwarded(request)
    /\ Served(request, Response(200, TRUE, "LOGIN_HTML"))
    /\ UNCHANGED << ToolState, server >>

LoginAccepts(password) == password = APP_PASSWORD

login(request) ==
    /\ request.path = "/auth/login"
    /\ Forwarded(request)
    /\ \/ /\ LoginAccepts(request.password)
          /\ \E token \in AuthTokens \ issued_tokens :
                /\ valid_tokens' = valid_tokens \cup {token}
                /\ issued_tokens' = issued_tokens \cup {token}
                /\ Served(request, Response(200, TRUE,
                              [token |-> token, status |-> "ok", set_cookie |-> token]))
       \/ /\ ~LoginAccepts(request.password)
          /\ Served(request, Response(401, TRUE, [detail |-> "Invalid password"]))
          /\ UNCHANGED << valid_tokens, issued_tokens >>
    /\ UNCHANGED << ToolState, logged_out >>

check_auth(request) ==
    /\ request.path = "/auth/check"
    /\ Forwarded(request)
    /\ LET token == IF ~Missing(request.header) THEN request.header ELSE request.cookie
       IN  Served(request, Response(200, TRUE,
                      [authenticated |-> ~Missing(token) /\ validate_token(token)]))
    /\ UNCHANGED << ToolState, server >>

(* the token logout removes *)
LogoutToken(request) == request.cookie

logout(request) ==
    /\ request.path = "/auth/logout"
    /\ Forwarded(request)
    /\ valid_tokens' = IF ~Missing(LogoutToken(request)) /\ LogoutToken(request) \in valid_tokens
                       THEN valid_tokens \ {LogoutToken(request)}
                       ELSE valid_tokens
    /\ logged_out' = logged_out \cup {DispatchToken(request)}
    /\ Served(request, Response(200, TRUE, [status |-> "logged out", delete_cookie |-> TRUE]))
    /\ UNCHANGED << ToolState, issued_tokens >>

(* a route copied from the ADK application, which answers as it sees fit *)
adk_route(request) ==
    /\ request.path \in AdkPaths
    /\ Forwarded(request)
    /\ \E status \in { 200, 404 } : Served(request, Response(status, TRUE, "adk"))
    /\ UNCHANGED << ToolState, server >>

ServerNext ==
    \E request \in Requests :
        \/ AuthRequired(request)
        \/ login_page(request)
        \/ login(request)
        \/ check_auth(request)
        \/ logout(request)
        \/ adk_route(request)

SpecServer == Init /\ [][ServerNext]_vars

(***************************************************************************)
(* Properties.                                                             *)
(***************************************************************************)
(* the mapping key of the table pair the last call was made for *)
CallKey(call) == mapping_key(call.args.source_table, call.args.target_table)

Accepts(call) ==
    call.op = "approve_mappings" /\ "approved" \in DOMAIN call.args /\ call.args.approved

Declines(call) ==
    call.op = "approve_mappings" /\ "approved" \in DOMAIN call.args /\ ~call.args.approved

(* the step appends exactly one event, of that type and risk level *)
AppendsOne(event_type, risk_level) ==
    /\ Len(audit_log') = Len(audit_log) + 1
    /\ SubSeq(audit_log', 1, Len(audit_log)) = audit_log
    /\ audit_log'[Len(audit_log')].event_type = event_type
    /\ audit_log'[Len(audit_log')].risk_level = risk_level

(* C1: every query execute_transformation has submitted for a mapping key  *)
(* came after a successful generation for that key, every successful       *)
(* generation after an accepted approval for the key, and every accepted   *)
(* approval after a suggestion stored for the key.                         *)
C1_ExecutionChain ==
    /\ \A q \in queries : q.mapping_key \in generated_keys
    /\ generated_keys \subseteq accepted_keys
    /\ accepted_keys \subseteq suggested_keys

C1_Witness == \E q \in queries : ~q.dry_run /\ q.mapping_key \in suggested_keys

(* C2: the approved store changes only in the step in which the reviewer   *)
(* accepts a waiting approve_mappings call, and then by the one entry that *)
(* the call read from the suggested store when it asked for review.        *)
C2_ApprovedOnlyByAccept ==
    [][ /\ Len(pending') > Len(pending) =>
              LET call == pending'[Len(pending')]
              IN  /\ call.mapping_key \in DOMAIN suggested_mappings
                  /\ call.mapping_data = suggested_mappings[call.mapping_key]
        /\ approved_mappings' # approved_mappings =>
              /\ Accepts(last')
              /\ \E i \in 1..Len(pending) :
                    /\ pending' = Remove(pending, i)
                    /\ pending[i].mapping_key = CallKey(last')
                    /\ approved_mappings' = Put(approved_mappings, pending[i].mapping_key,
                                                pending[i].mapping_data)
      ]_vars

C2_Witness ==
    /\ Declines(last)
    /\ CallKey(last) \in DOMAIN approved_mappings
    /\ approved_mappings[CallKey(last)] # suggested_mappings[CallKey(last)]

(* C3: generate_transformation_sql for a pair without an approved entry    *)
(* returns the not-approved error, without SQL, and changes no store, no   *)
(* audit event and no query.                                               *)
C3_NotApprovedChangesNothing ==
    [][ (last'.op = "generate_transformation_sql"
           /\ CallKey(last') \notin DOMAIN approved_mappings) =>
        /\ last'.value = NotApprovedError(last'.args.source_table, last'.args.target_table)
        /\ "insert_sql" \notin DOMAIN last'.value
        /\ "merge_sql" \notin DOMAIN last'.value
        /\ UNCHANGED << suggested_mappings, approved_mappings, generated_sql,
                        audit_log, queries >>
      ]_vars

C3_Witness ==
    /\ last.op = "generate_transformation_sql"
    /\ "error" \in DOMAIN last.value
    /\ CallKey(last) \in DOMAIN suggested_mappings
    /\ CallKey(last) \notin DOMAIN approved_mappings
    /\ DOMAIN approved_mappings # {}

(* C4: approve_mappings for a pair without a suggestion returns the        *)
(* no-suggestion error without asking the reviewer, and changes no store   *)
(* and no audit event.                                                     *)
C4_NoSuggestionAsksNobody ==
    [][ (~Blocked /\ last'.op \in {"approve_mappings", "request_confirmation"}
           /\ CallKey(last') \notin DOMAIN suggested_mappings) =>
        /\ last'.op = "approve_mappings"
        /\ last'.value = NoSuggestionError(last'.args.source_table, last'.args.target_table)
        /\ pending' = pending
        /\ UNCHANGED << suggested_mappings, approved_mappings, generated_sql, audit_log >>
      ]_vars

C4_Witness ==
    /\ last.op = "approve_mappings"
    /\ "error" \in DOMAIN last.value
    /\ CallKey(last) \notin DOMAIN suggested_mappings
    /\ DOMAIN suggested_mappings # {}

(* C5: execute_transformation for a pair without generated SQL returns the *)
(* no-SQL-generated error, submits no query, dry-run or live, and changes  *)
(* neither the session state nor the audit log.                            *)
C5_NoSqlSubmitsNothing ==
    [][ (last'.op = "execute_transformation"
           /\ CallKey(last') \notin DOMAIN generated_sql) =>
        /\ last'.value = NoSqlGeneratedError(last'.args.source_table,
                                             last'.args.target_table)
        /\ queries' = queries
        /\ UNCHANGED << source_schema, target_schema, suggested_mappings,
                        approved_mappings, generated_sql, audit_log >>
      ]_vars

C5_Witness ==
    /\ last.op = "execute_transformation"
    /\ "error" \in DOMAIN last.value
    /\ ~last.args.dry_run
    /\ CallKey(last) \in DOMAIN approved_mappings
    /\ CallKey(last) \notin DOMAIN generated_sql

(* C6: once suggest_column_mappings has replaced the suggestion of an      *)
(* approved pair by a different mapping set, generate_transformation_sql   *)
(* produces no SQL for the pair until the new mapping set has been         *)
(* accepted.                                                               *)
C6_ReapprovalRequired ==
    (last.op = "generate_transformation_sql" /\ "insert_sql" \in DOMAIN last.value)
        => CallKey(last) \notin reapproval_needed

(* C7: when the reviewer declines, the suggested, approved and             *)
(* generated-SQL stores stay as they were, exactly one MAPPINGS_REJECTED   *)
(* event at LOW risk is appended, and the call returns status rejected.    *)
C7_RejectLeavesStores ==
    [][ Declines(last') =>
        /\ UNCHANGED << suggested_mappings, approved_mappings, generated_sql >>
        /\ AppendsOne("MAPPINGS_REJECTED", "LOW")
        /\ "status" \in DOMAIN last'.value
        /\ last'.value.status = "rejected"
      ]_vars

C7_Witness ==
    /\ Declines(last)
    /\ CallKey(last) \in DOMAIN approved_mappings
    /\ CallKey(last) \in DOMAIN generated_sql

(* C8: an accepted approval of a pair that is already approved, with no    *)
(* suggestion stored for the pair since, leaves the approved store as it   *)
(* was; every accepted approval touches the entry of its own key only and  *)
(* appends exactly one MAPPINGS_APPROVED event at LOW risk.                *)
C8_ApprovalIdempotent ==
    [][ Accepts(last') =>
        /\ AppendsOne("MAPPINGS_APPROVED", "LOW")
        /\ DOMAIN approved_mappings' = DOMAIN approved_mappings \cup {CallKey(last')}
        /\ \A k \in DOMAIN approved_mappings \ {CallKey(last')} :
              approved_mappings'[k] = approved_mappings[k]
        /\ CallKey(last') \in clean => approved_mappings' = approved_mappings
      ]_vars

C8_Witness ==
    /\ Accepts(last)
    /\ Len(audit_log) >= 3
    /\ audit_log[Len(audit_log)].event_type = "MAPPINGS_APPROVED"
    /\ audit_log[Len(audit_log) - 1] = audit_log[Len(audit_log)]
    /\ Cardinality(DOMAIN approved_mappings) = 1
    /\ Cardinality(DOMAIN suggested_mappings) = 2

(* C9: both statements of every stored GeneratedSQL artifact, the INSERT   *)
(* and the MERGE, have been accepted by the SQL-safety check.              *)
C9_BothStatementsChecked ==
    \A k \in DOMAIN generated_sql :
        /\ generated_sql[k].insert_sql \in checked_sql
        /\ generated_sql[k].merge_sql \in checked_sql

(* C10: when the SQL-safety check rejects the synthesized INSERT, the call *)
(* returns an error value with the validation error and without            *)
(* insert_sql and merge_sql, the generated-SQL store stays as it was, and  *)
(* one INVALID_SQL_BLOCKED event at HIGH risk is appended.                 *)
C10_BlockedKeepsStore ==
    [][ (/\ last'.op = "generate_transformation_sql"
         /\ CallKey(last') \in DOMAIN approved_mappings
         /\ ~validate_sql_query(InsertSql(last'.args.source_table,
                last'.args.target_table, approved_mappings[CallKey(last')])).is_valid) =>
        /\ "error" \in DOMAIN last'.value
        /\ last'.value.error = validate_sql_query(InsertSql(last'.args.source_table,
               last'.args.target_table, approved_mappings[CallKey(last')])).error
        /\ last'.value.error # None
        /\ "insert_sql" \notin DOMAIN last'.value
        /\ "merge_sql" \notin DOMAIN last'.value
        /\ generated_sql' = generated_sql
        /\ UNCHANGED << suggested_mappings, approved_mappings >>
        /\ AppendsOne("INVALID_SQL_BLOCKED", "HIGH")
      ]_vars

C10_Witness ==
    /\ last.op = "generate_transformation_sql"
    /\ "status" \in DOMAIN last.value
    /\ last.value.status = "error"
    /\ CallKey(last) \in DOMAIN generated_sql
    /\ audit_log[Len(audit_log)].event_type = "INVALID_SQL_BLOCKED"

(* the position of the last event of that type for the table pair; 0 if none *)
LastEvent(log, event_type, source_table, target_table) ==
    LET hits == { i \in 1..Len(log) :
                    /\ log[i].event_type = event_type
                    /\ log[i].payload.source_table = source_table
                    /\ log[i].payload.target_table = target_table }
    IN  IF hits = {} THEN 0 ELSE CHOOSE i \in hits : \A j \in hits : j <= i

(* C12: a stored GeneratedSQL entry stays in the store, and its insert_sql *)
(* and merge_sql change only in a generate_transformation_sql step for its *)
(* pair that comes after an accepted approval of the pair later than the   *)
(* pair's previous generation.                                             *)
C12_GeneratedSqlImmutable ==
    [][ \A k \in DOMAIN generated_sql :
          /\ k \in DOMAIN generated_sql'
          /\ (\/ generated_sql'[k].insert_sql # generated_sql[k].insert_sql
              \/ generated_sql'[k].merge_sql # generated_sql[k].merge_sql) =>
                /\ last'.op = "generate_transformation_sql"
                /\ CallKey(last') = k
                /\ LastEvent(audit_log, "MAPPINGS_APPROVED",
                       last'.args.source_table, last'.args.target_table)
                   > LastEvent(audit_log, "SQL_GENERATED",
                       last'.args.source_table, last'.args.target_table)
      ]_vars

C12_Witness ==
    /\ last.op = "generate_transformation_sql"
    /\ CallKey(last) \in DOMAIN generated_sql
    /\ Len(audit_log) >= 4
    /\ audit_log[Len(audit_log)].event_type = "SQL_GENERATED"
    /\ audit_log[Len(audit_log) - 1].event_type = "SQL_GENERATED"
    /\ audit_log[Len(audit_log)].payload.source_table = last.args.source_table
    /\ audit_log[Len(audit_log) - 1].payload.source_table = last.args.source_table
    /\ audit_log[Len(audit_log)].payload.target_table = last.args.target_table
    /\ audit_log[Len(audit_log) - 1].payload.target_table = last.args.target_table

(* the live queries the warehouse has been handed *)
LiveQueries(submitted) == { q \in submitted : ~q.dry_run }

C14_WarehouseFailureIsValue ==
    [][ (/\ last'.op = "execute_transformation"
         /\ CallKey(last') \in DOMAIN generated_sql) =>
        /\ "status" \in DOMAIN last'.value
        /\ (\A q \in queries' :
               (q.mapping_key = CallKey(last') /\ q.dry_run = last'.args.dry_run)
                   => ~q.accepted)
              => last'.value.status = "error"
        /\ last'.value.status = "error" =>
              /\ last'.value.error = WarehouseErrorText
              /\ AppendsOne("SQL_ERROR", "HIGH")
              /\ audit_log'[Len(audit_log')].payload.error = WarehouseErrorText
              /\ UNCHANGED << suggested_mappings, approved_mappings, generated_sql >>
      ]_vars

C14_Witness ==
    /\ last.op = "execute_transformation"
    /\ "status" \in DOMAIN last.value
    /\ last.value.status = "error"
    /\ ~last.args.dry_run
    /\ audit_log[Len(audit_log)].event_type = "SQL_ERROR"

(* C11: a call on one table pair works on the store entry of that pair     *)
(* only: a review request shows the mapping set suggested for the pair     *)
(* that the call names.                                                    *)
C11_PairsKeepTheirEntries ==
    \A i \in 1..Len(pending) :
        /\ pending[i].mapping_data.source_table = pending[i].source_table
        /\ pending[i].mapping_data.target_table = pending[i].target_table

(* the table name is absent from the snapshot *)
Absent(schema, table_name) ==
    \A i \in 1..Len(schema.tables) : schema.tables[i].table_name # table_name

(* C15: suggest_column_mappings returns the schema-not-loaded error when a *)
(* snapshot is missing and a table-not-found error when the source or the  *)
(* target table is absent from its snapshot; the suggested store and the   *)
(* audit log stay as they were.                                            *)
C15_SuggestErrorsChangeNothing ==
    [][ last'.op = "suggest_column_mappings" =>
        /\ (source_schema = EmptyDict \/ target_schema = EmptyDict) =>
              /\ last'.value = [error |-> "Schema information not available. Run get_source_schema and get_target_schema first.",
                                source_table |-> last'.args.source_table,
                                target_table |-> last'.args.target_table]
              /\ UNCHANGED << suggested_mappings, audit_log >>
        /\ (/\ source_schema # EmptyDict /\ target_schema # EmptyDict
            /\ Absent(source_schema, last'.args.source_table)) =>
              /\ last'.value = [error |-> "Source table '" \o last'.args.source_table
                                           \o "' not found in schema."]
              /\ UNCHANGED << suggested_mappings, audit_log >>
        /\ (/\ source_schema # EmptyDict /\ target_schema # EmptyDict
            /\ ~Absent(source_schema, last'.args.source_table)
            /\ Absent(target_schema, last'.args.target_table)) =>
              /\ last'.value = [error |-> "Target table '" \o last'.args.target_table
                                           \o "' not found in schema."]
              /\ UNCHANGED << suggested_mappings, audit_log >>
      ]_vars

C15_Witness ==
    /\ last.op = "suggest_column_mappings"
    /\ source_schema # EmptyDict /\ target_schema # EmptyDict
    /\ ~Absent(source_schema, last.args.source_table)
    /\ Absent(target_schema, last.args.target_table)
    /\ "error" \in DOMAIN last.value
    /\ suggested_mappings # EmptyDict
    /\ Len(audit_log) > 0

(* the mapping of one target column in a stored suggestion *)
IsMapping(m, target_column, source_column, confidence, transformation, status) ==
    /\ m.target_column = target_column
    /\ m.source_column = source_column
    /\ m.confidence = confidence
    /\ m.transformation = transformation
    /\ m.status = status

CustomerKey == "cust_src_to_customer"

(* C19 as stated: customer_id and customer_name are both mapped at 0.60    *)
(* without a cast, customer_status is unmapped, the average is 0.60 and    *)
(* the INSERT has NULL AS customer_status.                                 *)
C19_ScenarioAsStated ==
    /\ CustomerKey \in DOMAIN suggested_mappings =>
          LET r == suggested_mappings[CustomerKey]
          IN  /\ Len(r.mappings) = 3
              /\ IsMapping(r.mappings[1], "customer_id", "cust_id", 60, None, "suggested")
              /\ IsMapping(r.mappings[2], "customer_name", "cust_name", 60, None, "suggested")
              /\ IsMapping(r.mappings[3], "customer_status", None, 0, None, "unmapped")
              /\ r.average_confidence = 60
    /\ CustomerKey \in DOMAIN generated_sql =>
          Contains(generated_sql[CustomerKey].insert_sql,
                   << "NULL", "AS", "customer_status" >>)

(* C19: for cust_src(cust_id INT64, cust_name STRING) and customer(        *)
(* customer_id INT64, customer_name STRING, customer_status STRING) the    *)
(* suggestion maps customer_id to cust_id at 0.60 without a cast, leaves   *)
(* customer_name and customer_status unmapped with confidence 0, reports   *)
(* the average 0.60, and the INSERT generated after approval has NULL AS   *)
(* customer_name and NULL AS customer_status.                              *)
C19_Scenario ==
    /\ CustomerKey \in DOMAIN suggested_mappings =>
          LET r == suggested_mappings[CustomerKey]
          IN  /\ Len(r.mappings) = 3
              /\ IsMapping(r.mappings[1], "customer_id", "cust_id", 60, None, "suggested")
              /\ IsMapping(r.mappings[2], "customer_name", None, 0, None, "unmapped")
              /\ IsMapping(r.mappings[3], "customer_status", None, 0, None, "unmapped")
              /\ r.average_confidence = 60
    /\ CustomerKey \in DOMAIN generated_sql =>
          /\ Contains(generated_sql[CustomerKey].insert_sql,
                      << "cust_id", "AS", "customer_id" >>)
          /\ Contains(generated_sql[CustomerKey].insert_sql,
                      << "NULL", "AS", "customer_name" >>)
          /\ Contains(generated_sql[CustomerKey].insert_sql,
                      << "NULL", "AS", "customer_status" >>)

C19_Witness ==
    /\ CustomerKey \in DOMAIN suggested_mappings
    /\ CustomerKey \in DOMAIN approved_mappings
    /\ CustomerKey \in DOMAIN generated_sql
    /\ last.op = "generate_transformation_sql"
    /\ last.args = Tables("cust_src", "customer")

(* the drawn tables and the suggestion stored for them *)
InferKey == "ledger_to_ledger"
InferSourceCols == source_schema.tables[1].columns
InferTargetCols == target_schema.tables[1].columns
Inferred == InferKey \in DOMAIN suggested_mappings
InferredMappings == suggested_mappings[InferKey].mappings

CastTemplate(target_type) == "CAST({source} AS " \o target_type \o ")"

(* the confidence of the first rule that applies to the two names; 0 = none *)
FirstRule(source_name, target_name) ==
    IF Lower(source_name) = Lower(target_name) THEN 95
    ELSE IF \/ Contains(Lower(target_name), Lower(source_name))
            \/ Contains(Lower(source_name), Lower(target_name)) THEN 75
    ELSE IF _similar_names(source_name, target_name) THEN 60
    ELSE 0

(* the score of a source column as a candidate for a target column; 0 = none *)
CandidateScore(sc, tc) ==
    With(FirstRule(sc.name, tc.name), LAMBDA base :
        IF base = 0 THEN 0
        ELSE IF sc.type # tc.type THEN base - 10
        ELSE base)

(* C16: the confidence of a mapped column is that of the first rule that   *)
(* applies to the two names (equality 0.95, containment 0.75, normalized   *)
(* similarity 0.60), less exactly 0.1 when the declared types differ; the  *)
(* CAST template to the target type is attached exactly when they differ;  *)
(* every score is one of 0.95, 0.85, 0.75, 0.65, 0.60, 0.50.               *)
C16_FirstRuleAndPenalty ==
    Inferred =>
      \A j \in 1..Len(InferredMappings) :
        LET m == InferredMappings[j]
            tc == InferTargetCols[j]
        IN  m.source_column # None =>
              /\ m.confidence \in {95, 85, 75, 65, 60, 50}
              /\ \E i \in 1..Len(InferSourceCols) :
                    /\ InferSourceCols[i].name = m.source_column
                    /\ m.source_type = InferSourceCols[i].type
                    /\ m.confidence =
                          FirstRule(m.source_column, tc.name)
                          - (IF m.source_type # tc.type THEN 10 ELSE 0)
                    /\ m.transformation =
                          IF m.source_type # tc.type THEN CastTemplate(tc.type) ELSE None

C16_Witness ==
    /\ Inferred
    /\ \E j \in 1..Len(InferredMappings) :
          /\ InferredMappings[j].confidence = 85
          /\ InferredMappings[j].transformation # None
    /\ \E j \in 1..Len(InferredMappings) :
          /\ InferredMappings[j].confidence = 60
          /\ InferredMappings[j].transformation = None

(* the scores of the source columns for one target column *)
Scores(tc) == [i \in 1..Len(InferSourceCols) |-> CandidateScore(InferSourceCols[i], tc)]

BestScore(scores) ==
    CHOOSE b \in {0} \cup { scores[i] : i \in 1..Len(scores) } :
        \A i \in 1..Len(scores) : scores[i] <= b

FirstBest(scores) ==
    CHOOSE i \in 1..Len(scores) :
        /\ scores[i] = BestScore(scores)
        /\ \A k \in 1..(i - 1) : scores[k] < BestScore(scores)

(* C17: a target column is mapped to the source column with the highest    *)
(* score, the first one in column order among equals, with that column's   *)
(* own confidence and transformation; when no source column is a candidate *)
(* the target column is unmapped with confidence 0 and no transformation.  *)
C17_BestCandidateFirstSeen ==
    Inferred =>
      \A j \in 1..Len(InferredMappings) :
        \E scores \in { Scores(InferTargetCols[j]) } :
          LET m == InferredMappings[j]
              tc == InferTargetCols[j]
          IN  /\ m.target_column = tc.name
              /\ IF BestScore(scores) = 0
                 THEN /\ m.source_column = None
                      /\ m.confidence = 0
                      /\ m.transformation = None
                      /\ m.status = "unmapped"
                 ELSE /\ m.source_column = InferSourceCols[FirstBest(scores)].name
                      /\ m.source_type = InferSourceCols[FirstBest(scores)].type
                      /\ m.confidence = BestScore(scores)
                      /\ m.transformation =
                            IF InferSourceCols[FirstBest(scores)].type # tc.type
                            THEN CastTemplate(tc.type) ELSE None
                      /\ m.status = "suggested"

C17_Witness ==
    /\ Inferred
    /\ \E j \in 1..Len(InferTargetCols) :
          \E scores \in { Scores(InferTargetCols[j]) } :
              /\ BestScore(scores) > 0
              /\ \E i \in 1..Len(scores) :
                    i > FirstBest(scores) /\ scores[i] = BestScore(scores)
    /\ \E j \in 1..Len(InferTargetCols) :
          \E scores \in { Scores(InferTargetCols[j]) } : BestScore(scores) = 0

(* C18: a target column for which a source column of the same name, case   *)
(* ignored, exists is mapped to such a column, at 0.95 without a cast when  *)
(* the types are equal and at 0.85 with the cast to the target type, which *)
(* the SELECT list renders as CAST(<source> AS <target type>), when they   *)
(* differ; no mapping has a negative confidence.                           *)
C18_ExactNameMatch ==
    Inferred =>
      \A j \in 1..Len(InferredMappings) :
        LET m == InferredMappings[j]
            tc == InferTargetCols[j]
        IN  /\ m.confidence >= 0
            /\ (\E i \in 1..Len(InferSourceCols) :
                   Lower(InferSourceCols[i].name) = Lower(tc.name)) =>
                 /\ m.status = "suggested"
                 /\ Lower(m.source_column) = Lower(tc.name)
                 /\ \/ /\ m.source_type = tc.type
                       /\ m.confidence = 95
                       /\ m.transformation = None
                       /\ SelectClause(<< m >>) = << m.source_column, "AS", tc.name >>
                    \/ /\ m.source_type # tc.type
                       /\ m.confidence = 85
                       /\ SelectClause(<< m >>) =
                             << "CAST", "(", m.source_column, "AS", tc.type, ")",
                                "AS", tc.name >>
                       /\ \A i \in 1..Len(InferSourceCols) :
                             Lower(InferSourceCols[i].name) = Lower(tc.name)
                                 => InferSourceCols[i].type # tc.type

C18_Witness ==
    /\ Inferred
    /\ \E j \in 1..Len(InferredMappings) :
          /\ InferredMappings[j].target_column = "amount"
          /\ InferredMappings[j].source_column = "Amount"
          /\ InferredMappings[j].source_type = "FLOAT64"
          /\ InferredMappings[j].confidence = 85

(* the sum and the number of the confidences of the mapped columns *)
MappedSum ==
    SumSeq([j \in 1..Len(InferredMappings) |->
               IF InferredMappings[j].source_column # None
               THEN InferredMappings[j].confidence ELSE 0])

MappedCount ==
    Cardinality({ j \in 1..Len(InferredMappings) :
                    InferredMappings[j].source_column # None })

(* C20 as stated: the average is the sum of the mapped confidences divided *)
(* by max(mapped_count, 1), within [0, 1].                                 *)
C20_AverageExact ==
    Inferred =>
      /\ suggested_mappings[InferKey].average_confidence \in 0..100
      /\ Max(MappedCount, 1) * suggested_mappings[InferKey].average_confidence
            = MappedSum

(* C20: average_confidence lies in [0, 1] and is the sum of the mapped     *)
(* confidences divided by max(mapped_count, 1), rounded to two decimals;   *)
(* unmapped columns count neither in the sum nor in the divisor, and with  *)
(* no mapped column the average is 0.                                      *)
C20_AverageRounded ==
    Inferred =>
      LET avg == suggested_mappings[InferKey].average_confidence
          n == Max(MappedCount, 1)
          d == n * avg - MappedSum
      IN  /\ avg \in 0..100
          /\ 2 * (IF d < 0 THEN -d ELSE d) <= n
          /\ MappedCount = 0 => avg = 0
          /\ suggested_mappings[InferKey].mapping_count = MappedCount

C20_Witness ==
    /\ Inferred
    /\ MappedCount = 2
    /\ MappedSum % 2 = 1

(* the event of that type and risk is in the log *)
Logged(log, event_type, risk_level) ==
    \E k \in 1..Len(log) :
        log[k].event_type = event_type /\ log[k].risk_level = risk_level

Synthesized == InferKey \in DOMAIN generated_sql
SynthMappings == approved_mappings[InferKey].mappings

(* the item of the SELECT list that the claim gives for one mapping *)
ItemFor(m) ==
    IF m.source_column = None THEN << "NULL", "AS", m.target_column >>
    ELSE IF m.transformation = None THEN << m.source_column, "AS", m.target_column >>
    ELSE << "CAST", "(", m.source_column, "AS", m.target_type, ")",
            "AS", m.target_column >>

(* the items of the mappings from the j-th on, separated by commas *)
RECURSIVE ItemsFrom(_, _)
ItemsFrom(ms, j) ==
    IF j > Len(ms) THEN << >>
    ELSE IF j = Len(ms) THEN ItemFor(ms[j])
    ELSE ItemFor(ms[j]) \o << "," >> \o ItemsFrom(ms, j + 1)

(* the tokens between the first SELECT and the first FROM after it *)
SelectListOf(sql) ==
    LET from == CHOOSE i \in 1..Len(sql) :
                    sql[i] = "SELECT" /\ \A k \in 1..(i - 1) : sql[k] # "SELECT"
        to == CHOOSE i \in 1..Len(sql) :
                    i > from /\ sql[i] = "FROM"
                    /\ \A k \in (from + 1)..(i - 1) : sql[k] # "FROM"
    IN  SubSeq(sql, from + 1, to - 1)

(* C22: the SELECT list of the generated statements has one item per       *)
(* mapping of the approved set, in the order of the set: the transform     *)
(* with the source column put in, AS the target column; the bare source    *)
(* column AS the target column; or NULL AS the target column for an        *)
(* unmapped one; and column_count is the number of mappings.               *)
C22_SelectListPerMapping ==
    Synthesized =>
      \E items \in { ItemsFrom(SynthMappings, 1) } :
        /\ SelectListOf(generated_sql[InferKey].insert_sql) = items
        /\ SelectListOf(generated_sql[InferKey].merge_sql) = items
        /\ generated_sql[InferKey].column_count = Len(SynthMappings)
        /\ Len(SynthMappings) = Len(InferTargetCols)
        /\ \A j \in 1..Len(SynthMappings) :
              SynthMappings[j].target_column = InferTargetCols[j].name

C22_Witness ==
    /\ Synthesized
    /\ Len(SynthMappings) = 3
    /\ SynthMappings[1].source_column = None
    /\ SynthMappings[2].source_column # None /\ SynthMappings[2].transformation # None
    /\ SynthMappings[3].source_column # None
    /\ last.op = "generate_transformation_sql"

(* C23: when the approved set has a mapped column, the ON condition of the *)
(* MERGE statement compares the first target column, in mapping order,     *)
(* that has a source column.                                               *)
C23_MergeKeyFirstMapped ==
    (Synthesized /\ \E j \in 1..Len(SynthMappings) : SynthMappings[j].source_column # None) =>
      LET first == CHOOSE j \in 1..Len(SynthMappings) :
                      /\ SynthMappings[j].source_column # None
                      /\ \A k \in 1..(j - 1) : SynthMappings[k].source_column = None
          key == SynthMappings[first].target_column
      IN  Contains(generated_sql[InferKey].merge_sql,
                   << "ON", "target", ".", key, "=", "source", ".", key >>)

(* the snapshot holds every table and every column the catalog has for it *)
WholeSnapshot(schema, dataset_id) ==
    /\ schema.dataset_id = dataset_id
    /\ schema.table_count = Len(Catalog[dataset_id])
    /\ Len(schema.tables) = Len(Catalog[dataset_id])
    /\ \A i \in 1..Len(schema.tables) :
          /\ schema.tables[i].table_name = Catalog[dataset_id][i].table_name
          /\ Len(schema.tables[i].columns) = Len(Catalog[dataset_id][i].columns)
          /\ \A j \in 1..Len(schema.tables[i].columns) :
                /\ schema.tables[i].columns[j].name = Catalog[dataset_id][i].columns[j].name
                /\ schema.tables[i].columns[j].type = Catalog[dataset_id][i].columns[j].type

(* C24: get_source_schema and get_target_schema leave the other role's     *)
(* snapshot and the three stores as they were; when the catalog query      *)
(* fails the call returns an error value with the dataset id and the       *)
(* snapshot cached for its role stays; when it succeeds the role's         *)
(* snapshot becomes the whole snapshot of the dataset, which is returned.  *)
C24_SnapshotWrittenWhole ==
    [][ /\ last'.op = "get_source_schema" =>
            /\ UNCHANGED << target_schema, suggested_mappings, approved_mappings,
                            generated_sql >>
            /\ IF "error" \in DOMAIN last'.value
               THEN /\ last'.value.dataset_id = last'.args.dataset_id
                    /\ UNCHANGED source_schema
               ELSE /\ source_schema' = last'.value
                    /\ WholeSnapshot(source_schema', last'.args.dataset_id)
        /\ last'.op = "get_target_schema" =>
            /\ UNCHANGED << source_schema, suggested_mappings, approved_mappings,
                            generated_sql >>
            /\ IF "error" \in DOMAIN last'.value
               THEN /\ last'.value.dataset_id = last'.args.dataset_id
                    /\ UNCHANGED target_schema
               ELSE /\ target_schema' = last'.value
                    /\ WholeSnapshot(target_schema', last'.args.dataset_id)
      ]_vars

C24_Witness ==
    /\ last.op = "get_target_schema"
    /\ "error" \in DOMAIN last.value
    /\ target_schema # EmptyDict
    /\ target_schema.dataset_id # last.args.dataset_id
    /\ WholeSnapshot(target_schema, target_schema.dataset_id)
    /\ source_schema # EmptyDict
    /\ suggested_mappings # EmptyDict

(* the call returned a value with that status *)
ReturnedStatus(call, op, status) ==
    /\ call.op = op
    /\ "status" \in DOMAIN call.value
    /\ call.value.status = status

(* C25: no step removes or alters an event of the audit log, and each of   *)
(* these outcomes appends exactly one event before the call returns: an    *)
(* accepted approval MAPPINGS_APPROVED at LOW, a declined one              *)
(* MAPPINGS_REJECTED at LOW, a successful generation SQL_GENERATED at      *)
(* MEDIUM, blocked SQL INVALID_SQL_BLOCKED at HIGH, a dry run that passed  *)
(* SQL_VALIDATED at LOW, a live run that passed SQL_EXECUTED at HIGH, a    *)
(* query the warehouse refused SQL_ERROR at HIGH.                          *)
C25_AuditAppendOnly ==
    [][ /\ Len(audit_log') >= Len(audit_log)
        /\ SubSeq(audit_log', 1, Len(audit_log)) = audit_log
        /\ ReturnedStatus(last', "approve_mappings", "approved")
              => AppendsOne("MAPPINGS_APPROVED", "LOW")
        /\ ReturnedStatus(last', "approve_mappings", "rejected")
              => AppendsOne("MAPPINGS_REJECTED", "LOW")
        /\ (last'.op = "generate_transformation_sql" /\ "insert_sql" \in DOMAIN last'.value)
              => AppendsOne("SQL_GENERATED", "MEDIUM")
        /\ ReturnedStatus(last', "generate_transformation_sql", "error")
              => AppendsOne("INVALID_SQL_BLOCKED", "HIGH")
        /\ ReturnedStatus(last', "execute_transformation", "validated")
              => AppendsOne("SQL_VALIDATED", "LOW")
        /\ ReturnedStatus(last', "execute_transformation", "executed")
              => AppendsOne("SQL_EXECUTED", "HIGH")
        /\ ReturnedStatus(last', "execute_transformation", "error")
              => AppendsOne("SQL_ERROR", "HIGH")
      ]_vars

C25_Witness ==
    /\ ReturnedStatus(last, "execute_transformation", "executed")
    /\ Len(audit_log) = 4
    /\ audit_log[1].event_type = "MAPPINGS_SUGGESTED"
    /\ audit_log[2].event_type = "MAPPINGS_APPROVED" /\ audit_log[2].risk_level = "LOW"
    /\ audit_log[3].event_type = "SQL_GENERATED" /\ audit_log[3].risk_level = "MEDIUM"
    /\ audit_log[4].event_type = "SQL_EXECUTED" /\ audit_log[4].risk_level = "HIGH"

(* C26: in a stored mapping set there is one candidate per target column,  *)
(* in the order of the target table; its status is suggested exactly when  *)
(* a source column is present and unmapped otherwise; an unmapped one has  *)
(* confidence 0, no source type and no transformation; a mapped one has a  *)
(* confidence from 0.50 to 0.95 and a transformation exactly when source   *)
(* and target type differ; mapping_count and unmapped_count add up to the  *)
(* number of target columns.                                               *)
C26_CandidateShape ==
    Inferred =>
      /\ Len(InferredMappings) = Len(InferTargetCols)
      /\ suggested_mappings[InferKey].mapping_count
           + suggested_mappings[InferKey].unmapped_count = Len(InferTargetCols)
      /\ suggested_mappings[InferKey].mapping_count =
            Cardinality({ j \in 1..Len(InferredMappings) :
                            InferredMappings[j].status = "suggested" })
      /\ \A j \in 1..Len(InferredMappings) :
            LET c == InferredMappings[j]
            IN  /\ c.target_column = InferTargetCols[j].name
                /\ c.target_type = InferTargetCols[j].type
                /\ c.status \in {"suggested", "unmapped"}
                /\ c.status = "suggested" <=> c.source_column # None
                /\ c.source_column = None =>
                      /\ c.confidence = 0
                      /\ c.source_type = None
                      /\ c.transformation = None
                /\ c.source_column # None =>
                      /\ c.confidence >= 50 /\ c.confidence <= 95
                      /\ c.source_type # None
                      /\ c.transformation # None <=> c.source_type # c.target_type

C26_Witness ==
    /\ Inferred
    /\ Len(InferredMappings) = 3
    /\ suggested_mappings[InferKey].mapping_count = 2
    /\ suggested_mappings[InferKey].unmapped_count = 1
    /\ \E j \in 1..3 : InferredMappings[j].confidence = 85
    /\ \E j \in 1..3 : InferredMappings[j].confidence = 65
    /\ \E j \in 1..3 : InferredMappings[j].status = "unmapped"

(* a step by which the waiting call returns with that status and event *)
Decides(status, event_type) ==
    /\ ReturnedStatus(last', "approve_mappings", status)
    /\ AppendsOne(event_type, "LOW")

(* C27: asking for review changes neither the snapshots, nor the stores,   *)
(* nor the audit log, and is done only for a pair with a stored            *)
(* suggestion; while the call waits nothing else happens; the reviewer's   *)
(* answer ends the call in exactly one of the outcomes approved (the set   *)
(* is in the approved store) and rejected (the approved store is as it     *)
(* was), with the one event of that outcome; and a reviewer who answers    *)
(* ends every waiting call.                                                *)
C27_WaitsThenOneOutcome ==
    /\ [][ /\ last'.op = "request_confirmation" =>
                /\ ~Blocked /\ Blocked'
                /\ CallKey(last') \in DOMAIN suggested_mappings
                /\ UNCHANGED << source_schema, target_schema, suggested_mappings,
                                approved_mappings, generated_sql, audit_log, queries >>
           /\ Blocked =>
                /\ ~Blocked'
                /\ last'.op = "approve_mappings"
                /\ CallKey(last') = pending[1].mapping_key
                /\ UNCHANGED << source_schema, target_schema, suggested_mappings,
                                generated_sql, queries >>
                /\ \/ /\ Decides("approved", "MAPPINGS_APPROVED")
                      /\ CallKey(last') \in DOMAIN approved_mappings'
                      /\ approved_mappings'[CallKey(last')] = pending[1].mapping_data
                   \/ /\ Decides("rejected", "MAPPINGS_REJECTED")
                      /\ UNCHANGED approved_mappings
         ]_vars
    /\ (Blocked ~> ~Blocked)

C27_Witness ==
    /\ ReturnedStatus(last, "approve_mappings", "rejected")
    /\ ~Blocked
    /\ CallKey(last) \in DOMAIN suggested_mappings
    /\ CallKey(last) \notin DOMAIN approved_mappings
    /\ audit_log[Len(audit_log)].event_type = "MAPPINGS_REJECTED"

(* the review payload shows the columns of that mapping set *)
Renders(payload, mapping_data) ==
    /\ Len(payload.mappings) = Len(mapping_data.mappings)
    /\ payload.summary.mapped = mapping_data.mapping_count
    /\ payload.summary.unmapped = mapping_data.unmapped_count
    /\ \A j \in 1..Len(payload.mappings) :
          /\ payload.mappings[j].target = mapping_data.mappings[j].target_column
          /\ payload.mappings[j].source =
                IF mapping_data.mappings[j].source_column = None THEN "(unmapped)"
                ELSE mapping_data.mappings[j].source_column
          /\ payload.mappings[j].status = mapping_data.mappings[j].status

(* C28: with calls overlapping on one key, a review request shows the set  *)
(* that was in the suggested store when it was made, and an accepted       *)
(* approval puts exactly the set its own request showed into the approved  *)
(* store, whatever was suggested or approved for the key in between: the   *)
(* entry is the whole set of the approval that wrote last.                 *)
C28_ApprovesWhatWasShown ==
    [][ /\ last'.op = "request_confirmation" =>
              /\ Renders(last'.value, suggested_mappings[CallKey(last')])
              /\ pending'[Len(pending')].payload = last'.value
              /\ pending'[Len(pending')].mapping_data = suggested_mappings[CallKey(last')]
        /\ Accepts(last') =>
              \E i \in 1..Len(pending) :
                  /\ pending' = SubSeq(pending, 1, i - 1) \o SubSeq(pending, i + 1, Len(pending))
                  /\ Renders(pending[i].payload, pending[i].mapping_data)
                  /\ approved_mappings'[CallKey(last')] = pending[i].mapping_data
      ]_vars

C28_Witness ==
    /\ Accepts(last)
    /\ Len(pending) = 0
    /\ Len(audit_log) = 4
    /\ audit_log[3].event_type = "MAPPINGS_APPROVED"
    /\ audit_log[4].event_type = "MAPPINGS_APPROVED"
    /\ approved_mappings[CallKey(last)] # suggested_mappings[CallKey(last)]

(* the text execute_transformation hands to the warehouse for SQL          *)
(* synthesized from that mapping set                                       *)
SqlFor(source_table, target_table, mapping_data) ==
    ExecutedSql([insert_sql |-> InsertSql(source_table, target_table, mapping_data)])

(* C29: whenever execute_transformation submits SQL for a pair, the text   *)
(* submitted is the SQL synthesized from the mapping set that is in the    *)
(* approved store for the pair at that moment, never SQL built from a set  *)
(* that a newer approval has replaced.                                     *)
C29_ExecutesCurrentApproval ==
    [][ (last'.op = "execute_transformation" /\ queries' # queries) =>
            /\ CallKey(last') \in DOMAIN approved_mappings
            /\ \A q \in queries' \ queries :
                  q.sql = SqlFor(last'.args.source_table, last'.args.target_table,
                                 approved_mappings[CallKey(last')])
      ]_vars

(* the most recent reviewer decision recorded for the pair is a rejection *)
LastDecisionRejected(log, source_table, target_table) ==
    LastEvent(log, "MAPPINGS_REJECTED", source_table, target_table) >
        LastEvent(log, "MAPPINGS_APPROVED", source_table, target_table)

(* C30: while the most recent reviewer decision recorded for a pair is a   *)
(* rejection, generate_transformation_sql for the pair returns the         *)
(* not-approved error: a rejected pair is not synthesized until a later    *)
(* approve_mappings for it has been accepted.                              *)
C30_RejectedPairNotSynthesized ==
    [][ ( /\ last'.op = "generate_transformation_sql"
          /\ LastDecisionRejected(audit_log, last'.args.source_table,
                                  last'.args.target_table) ) =>
            last'.value = NotApprovedError(last'.args.source_table,
                                           last'.args.target_table)
      ]_vars

(* a name without the listed prefixes it starts with *)
RECURSIVE LeadingStripped(_, _)
LeadingStripped(n, i) ==
    IF i > Len(prefixes) THEN n
    ELSE IF StartsWith(n, prefixes[i])
         THEN LeadingStripped(SubSeq(n, Len(prefixes[i]) + 1, Len(n)), i + 1)
         ELSE LeadingStripped(n, i + 1)

(* the normalized-name rule as stated: lower case, leading prefixes off,   *)
(* a listed suffix off where both names end with it, then equality or      *)
(* containment                                                             *)
NormalizedNameRule(name1, name2) ==
    \E st \in {StripSuffixes(LeadingStripped(Lower(name1), 1),
                             LeadingStripped(Lower(name2), 1), 1)} :
        st[1] = st[2] \/ Contains(st[2], st[1]) \/ Contains(st[1], st[2])

(* C31: _similar_names holds for two column names exactly when, after      *)
(* lower-casing, removing a leading prefix (prefixes only, not occurrences *)
(* inside the name) and removing a listed suffix only where both names end *)
(* with it, the normalized names are equal or one contains the other.      *)
C31_NormalizedNameRule ==
    last.op = "_similar_names" =>
        (last.value <=> NormalizedNameRule(last.args.name1, last.args.name2))

(* the token a request presents: the X-Auth-Token header, else the token   *)
(* query parameter, else the auth_token cookie                             *)
PresentedToken(request) ==
    IF ~Missing(request.header) THEN request.header
    ELSE IF ~Missing(request.query) THEN request.query
    ELSE request.cookie

LoginPaths == { "/", "/auth/login", "/auth/check", "/favicon.ico" }

(* C32: a request for a path outside the login paths is forwarded to the   *)
(* application only if the token it presents is in valid_tokens at that    *)
(* moment, and is answered 401 otherwise; requests for the login paths are *)
(* forwarded unchecked; a token enters valid_tokens only in the answer to  *)
(* an /auth/login request with the correct password, and leaves it only by *)
(* logout.                                                                 *)
C32_AuthOnAllButLogin ==
    [][ /\ (last'.op = "request" /\ last'.args.path \notin LoginPaths) =>
              /\ last'.value.forwarded <=>
                     /\ ~Missing(PresentedToken(last'.args))
                     /\ PresentedToken(last'.args) \in valid_tokens
              /\ ~last'.value.forwarded => last'.value.status = 401
        /\ (last'.op = "request" /\ last'.args.path \in LoginPaths) =>
              last'.value.forwarded
        /\ \A token \in valid_tokens' \ valid_tokens :
              /\ last'.op = "request"
              /\ last'.args.path = "/auth/login"
              /\ last'.args.password = "aimagna@2025"
              /\ last'.value.content.token = token
        /\ \A token \in valid_tokens \ valid_tokens' :
              /\ last'.op = "request"
              /\ last'.args.path = "/auth/logout"
      ]_vars

C32_Witness ==
    /\ last.op = "request"
    /\ last.args.path = "/api/run"
    /\ last.args.header = ""
    /\ last.args.query = None
    /\ last.args.cookie \in valid_tokens
    /\ last.value.forwarded
    /\ issued_tokens \ valid_tokens # {}

(* C33: once an /auth/logout request has been served, the token that       *)
(* authenticated it, wherever the request carried it, is no longer in      *)
(* valid_tokens, so that later requests presenting it are answered 401.    *)
C33_LogoutInvalidates == logged_out \cap valid_tokens = {}

====
